---------------------------- MODULE Spec2Model ----------------------------
(***************************************************************************)
(* StreamableHttpServer (src/src/transports/streamable-http.ts): the       *)
(* session registry `transports`, the idle timers `sessionTimeouts`, the   *)
(* /mcp request dispatcher, the admin endpoint and stop().                 *)
(*                                                                         *)
(* One action is one run-to-completion segment of the Node event loop:     *)
(* the code between two awaits of a handler, a timer callback, or the      *)
(* settling of a promise of the MCP SDK.  Time is a discrete clock; a      *)
(* setTimeout callback runs when the clock reaches its deadline, and the   *)
(* clock does not pass a deadline whose callback is still pending.         *)
(***************************************************************************)
EXTENDS Integers, FiniteSets, Sequences, Bags, TLC

\* ------------------------------------------------------------- bounds
MaxRequests == 2        \* /mcp requests in flight at once
MaxSessions == 2        \* session ids randomUUID() hands out in one run
MaxCapacity == 2        \* largest configured maxConcurrentSessions
MaxTime == 3            \* clock ticks observed
SessionTimeoutMs == 2   \* options.sessionTimeoutMs, in clock ticks
StackDepth == 1         \* nested onclose -> cleanupSession calls before the
                        \* call stack is exhausted
MaxCloseCalls == 2      \* close() calls counted per transport (more are
                        \* counted as this many)
MaxRequestTimeout == 3  \* largest configured requestTimeoutMs, in clock ticks
ConnectTimeoutMs == 2   \* the 5000 ms bound on server.connect, in clock ticks
RateLimitMax == 1       \* rateLimitConfig.maxRequests
MaxServed == 2          \* requests followed through the middleware chain
MaxKeys == 2            \* client keys the rate limiter sees
WindowMs == 2           \* rateLimitConfig.windowMs, in clock ticks
MaxSseSessions == 2     \* SSE connections handled
MaxEndCalls == 2        \* response.end() calls counted per SSE session (more
                        \* are counted as this many)
MaxWrites == 1          \* response writes counted per SSE session after the
                        \* connected event (more are counted as this many)
MaxMessages == 2        \* messages handed to one SSE session's onmessage
MaxTools == 1           \* tool names registered
MaxValue == 1           \* argument and result values run from 0 to this
MaxCalls == 2           \* executeTool calls followed
SessionNotFoundCode == -32000
InternalErrorCode == -32603

SessionIds == 1..MaxSessions
NoSid == 0              \* no mcp-session-id header

Verbs == {"POST", "GET", "DELETE", "PUT"}

VARIABLES
  now,                    \* the clock
  maxConcurrentSessions,  \* options.maxConcurrentSessions
  transports,             \* keys of this.transports (a session's transport is
                          \* named by its session id)
  sessionTimeouts,        \* this.sessionTimeouts: session id -> timer handle
  pendingTimers,          \* idle timers armed in the event loop: [sid, due]
  closeCalls,             \* per transport: how often close() was invoked
  req,                    \* the bag of /mcp requests in flight
  nextSid,                \* next fresh session id
  phase,                  \* stop(): "running", "draining", "closing", "stopped"
  stopClosed,             \* stop(): sessions whose close() promise resolved
  event,                  \* what the step just taken did at the HTTP surface:
                          \* the request dispatched and its branch, or the
                          \* request answered and its result; NoEvent otherwise
  registered,             \* history: ids ever stored in transports
  registeredAt,           \* history: open session -> time it was registered
  lastRefresh,            \* history: open session -> time it was registered
                          \* or last refreshed
  timedOut,               \* history: ids whose idle-timer callback ran
  listening,              \* this.server is open (its handle is not closed)
  closeError,             \* stop(): the error the callback of the second
                          \* server.close will be called with, or "none"
  rateLimiter,            \* this.rateLimiter: "none", "active", "destroyed"
  stopResult,             \* how stop() settled: [result, cause]
  requestTimeoutMs,       \* options.requestTimeoutMs
  limiterCount,           \* requests the rate limiter has counted in its window
  served,                 \* requests that have entered the middleware chain
  rq,                     \* the request followed through the middleware chain:
                          \* [pc, verb, sid, init, tsid, timers]
  res,                    \* its response: [headersSent, status, code, by]
  sse,                    \* SSETransport.sessions and the session objects the
                          \* SSE transports hold, by session id
  limiter,                \* the rate limiter's window of each key, with the
                          \* history of the key's requests
  endpoint,               \* this.port, this.host and the address this.server
                          \* is bound to
  tools,                  \* ToolRegistry.tools: name -> tool definition
  lastCall,               \* the last executeTool call and how it settled
  invocations             \* history: name -> times its handler was invoked

vars == <<now, maxConcurrentSessions, transports, sessionTimeouts,
          pendingTimers, closeCalls, req, nextSid, phase, stopClosed,
          event, registered, registeredAt, lastRefresh, timedOut,
          listening, closeError, rateLimiter, stopResult,
          requestTimeoutMs, limiterCount, served, rq, res, sse,
          limiter, endpoint, tools, lastCall, invocations>>

\* What only SSETransport and SSEServerTransport change.
sseVars == <<sse>>

\* What only the rate limiter followed key by key changes.
limiterVars == <<limiter>>

\* What only start() changes.
startVars == <<endpoint>>
toolVars == <<tools, lastCall, invocations>>

\* What only the request followed through the middleware chain changes.
pipeVars == <<requestTimeoutMs, limiterCount, served, rq, res>>

NoRequest == [pc |-> "none", verb |-> "none", sid |-> NoSid, init |-> FALSE,
              tsid |-> NoSid, timers |-> {}, at |-> 0, limited |-> FALSE,
              failure |-> "none"]
SseIds == 1..MaxSseSessions
\* An SSE session id that handleConnection has not yet generated.
NoSse == [stored |-> FALSE, started |-> FALSE, isClosed |-> FALSE,
          heartbeat |-> FALSE, ends |-> 0, closeEmitted |-> FALSE,
          wrote |-> 0, late |-> FALSE, err |-> "none", received |-> 0]

DefaultPort == 3000

\* Tool names, and the values arguments and handler results are taken from.
ToolNames == 1..MaxTools
Values == 0..MaxValue
\* What a handler does with validated arguments.
Handlers == {"echo", "other", "throws"}
\* An output schema: absent, or the set of values it accepts.
OutputSchemas ==
  {[present |-> FALSE, accepts |-> Values]}
    \cup [present : {TRUE}, accepts : SUBSET Values]
\* A ToolDefinition: the values its input schema accepts, its output schema
\* and its handler.
ToolDefinitions ==
  [inputSchema : SUBSET Values, outputSchema : OutputSchemas,
   handler : Handlers]
\* No executeTool call yet.
NoCall == [seq |-> 0, name |-> 0, args |-> 0, returned |-> {},
           kind |-> "none", message |-> "none", text |-> "none"]
DefaultHost == "localhost"
Ports == {DefaultPort, DefaultPort + 1}
Hosts == {DefaultHost, "0.0.0.0"}
\* An option the caller of the constructor left out; the argument listen is
\* called without.
NoOption == "unset"
\* options.port left out.
NoPort == 0
\* The address a listener binds to when listen is given no host: every
\* interface.
AnyAddress == "::"
NoAddress == [port |-> NoPort, host |-> "none"]

\* The constructor: this.options = {port: 3000, host: "localhost", ...options}.
Configure(port, host) ==
  [port |-> IF port = NoPort THEN DefaultPort ELSE port,
   host |-> IF host = NoOption THEN DefaultHost ELSE host,
   bound |-> NoAddress]

\* app.listen(port[, host], callback) of Node: the address the listener is
\* bound to.
Listen(port, host) ==
  [port |-> port, host |-> IF host = NoOption THEN AnyAddress ELSE host]

\* start(): this.app.listen(this.port, callback).
StartListening(e) == [e EXCEPT !.bound = Listen(e.port, NoOption)]

Keys == 1..MaxKeys
\* A key the rate limiter does not track and that has issued no request:
\* start and count are the limiter's window, firstAt, issued and later the
\* history of the key (its first request, the requests inside the window
\* that began then, the requests after it).
NoWindow == [tracked |-> FALSE, start |-> 0, count |-> 0,
             firstAt |-> 0, issued |-> 0, later |-> 0]

NoResponse == [headersSent |-> FALSE, status |-> "none", code |-> "none",
               id |-> "none", by |-> "none"]

\* What only stop() changes.
stopVars == <<listening, closeError, rateLimiter, stopResult>>

NotSettled == [result |-> "none", cause |-> "none"]

NoEvent == [kind |-> "none", verb |-> "none", sid |-> NoSid, init |-> FALSE,
            out |-> "none"]

\* A request in flight is [pc, tsid]: where its handler is suspended, and the
\* session id of the transport it holds.
InFlight == BagToSet(req)
Accept(q) == req' = req (+) SetToBag({q})
Advance(q, pc) == req' = (req (-) SetToBag({q})) (+) SetToBag({[q EXCEPT !.pc = pc]})

\* The registry as one value, for the operators that model the methods.
Reg == [transports |-> transports, sessionTimeouts |-> sessionTimeouts,
        pendingTimers |-> pendingTimers, closeCalls |-> closeCalls]

\* ----------------------------------------------------- the registry
\* Map.delete / Map.set on sessionTimeouts.
MapDelete(f, k) == [x \in DOMAIN f \ {k} |-> f[x]]
MapSet(f, k, v) == [x \in DOMAIN f \cup {k} |-> IF x = k THEN v ELSE f[x]]

\* clearTimeout(handle)
ClearTimeout(timers, handle) == timers \ {handle}

\* A setupSessionTimeout that arms the timer for twice the idle duration.
SetupSessionTimeoutDoubled(reg, sid, t) ==
  LET handle == [sid |-> sid, due |-> t + 2 * SessionTimeoutMs]
  IN [reg EXCEPT !.pendingTimers = @ \cup {handle},
                 !.sessionTimeouts = MapSet(@, sid, handle)]

\* setupSessionTimeout(sessionId): setTimeout(..., sessionTimeoutMs), stored.
SetupSessionTimeout(reg, sid, t) ==
  LET handle == [sid |-> sid, due |-> t + SessionTimeoutMs]
  IN [reg EXCEPT !.pendingTimers = @ \cup {handle},
                 !.sessionTimeouts = MapSet(@, sid, handle)]

\* A refreshSessionTimeout that leaves the superseded timer armed.
RefreshWithoutClear(reg, sid, t) == SetupSessionTimeout(reg, sid, t)

\* refreshSessionTimeout(sessionId)
RefreshSessionTimeout(reg, sid, t) ==
  LET cleared == IF sid \in DOMAIN reg.sessionTimeouts
                 THEN [reg EXCEPT !.pendingTimers =
                         ClearTimeout(@, reg.sessionTimeouts[sid])]
                 ELSE reg
  IN SetupSessionTimeout(cleared, sid, t)

\* An onsessioninitialized that stores the transport and arms no idle timer.
OnSessionInitializedUntimed(reg, sid, t) ==
  [reg EXCEPT !.transports = @ \cup {sid}]

\* onsessioninitialized(sid)
OnSessionInitialized(reg, sid, t) ==
  SetupSessionTimeout([reg EXCEPT !.transports = @ \cup {sid}], sid, t)

RECURSIVE CleanupSession(_, _, _, _)
RECURSIVE TransportClose(_, _, _, _)

\* A cleanupSession that closes the transport but keeps its registry entry.
CleanupSessionKeepsEntry(reg, sid, fires, depth) ==
  LET untimed == IF sid \in DOMAIN reg.sessionTimeouts
                 THEN [reg EXCEPT
                         !.pendingTimers =
                            ClearTimeout(@, reg.sessionTimeouts[sid]),
                         !.sessionTimeouts = MapDelete(@, sid)]
                 ELSE reg
  IN IF sid \in untimed.transports
     THEN TransportClose(untimed, sid, FALSE, depth)
     ELSE untimed

\* A cleanupSession that forgets the idle timer without cancelling it.
CleanupSessionKeepsTimer(reg, sid, fires, depth) ==
  LET untimed == [reg EXCEPT !.sessionTimeouts = MapDelete(@, sid)]
  IN IF sid \in untimed.transports
     THEN LET closed == TransportClose(untimed, sid, fires, depth)
          IN [closed EXCEPT !.transports = @ \ {sid}]
     ELSE untimed

\* transport.close() of the SDK: counts the call and, when it gets that far
\* (fires), invokes transport.onclose, which calls cleanupSession(sessionId).
\* depth is the call stack left: at 0 the nested call throws RangeError, which
\* the callers catch.
TransportClose(reg, sid, fires, depth) ==
  LET called == [reg EXCEPT !.closeCalls[sid] =
                              IF @ < MaxCloseCalls THEN @ + 1 ELSE @]
  IN IF fires /\ depth > 0
     THEN CleanupSession(called, sid, fires, depth - 1)
     ELSE called

\* cleanupSession(sessionId)
CleanupSession(reg, sid, fires, depth) ==
  LET untimed == IF sid \in DOMAIN reg.sessionTimeouts
                 THEN [reg EXCEPT
                         !.pendingTimers =
                            ClearTimeout(@, reg.sessionTimeouts[sid]),
                         !.sessionTimeouts = MapDelete(@, sid)]
                 ELSE reg
  IN IF sid \in untimed.transports
     THEN LET closed == TransportClose(untimed, sid, fires, depth)
          IN [closed EXCEPT !.transports = @ \ {sid}]
     ELSE untimed

\* ----------------------------------------------------- the dispatcher
\* A session-limit check that admits one session more than the maximum.
AtCapacityStrict(ts, max) == Cardinality(ts) > max

\* handleMCPRequest: the session-limit check.
AtCapacity(ts, max) == Cardinality(ts) >= max

\* A handlePostRequest that creates a session for any POST without session id.
HandlePostRouteAnyBody(ts, sid, init) ==
  IF sid # NoSid /\ sid \in ts THEN "reuse"
  ELSE IF sid = NoSid THEN "create"
  ELSE "invalid"

\* handlePostRequest: which branch a POST takes.
HandlePostRoute(ts, sid, init) ==
  IF sid # NoSid /\ sid \in ts THEN "reuse"
  ELSE IF sid = NoSid /\ init THEN "create"
  ELSE "invalid"

\* A handleGetRequest that trusts any session id it is given.
HandleGetRouteAnyId(ts, sid) ==
  IF sid = NoSid THEN "invalid" ELSE "reuse"

\* handleGetRequest
HandleGetRoute(ts, sid) ==
  IF sid = NoSid \/ sid \notin ts THEN "invalid" ELSE "reuse"

\* A handleDeleteRequest that trusts any session id it is given.
HandleDeleteRouteAnyId(ts, sid) ==
  IF sid = NoSid THEN "invalid" ELSE "terminate"

\* handleDeleteRequest
HandleDeleteRoute(ts, sid) ==
  IF sid = NoSid \/ sid \notin ts THEN "invalid" ELSE "terminate"

\* handleMCPRequest
HandleMCPRoute(ts, max, verb, sid, init) ==
  IF AtCapacity(ts, max) THEN "overloaded"
  ELSE IF verb = "POST" THEN HandlePostRoute(ts, sid, init)
  ELSE IF verb = "GET" THEN HandleGetRoute(ts, sid)
  ELSE IF verb = "DELETE" THEN HandleDeleteRoute(ts, sid)
  ELSE "notAllowed"

\* The error code each rejected route answers with.
RouteError(route) ==
  CASE route = "overloaded" -> "SERVER_OVERLOADED"
    [] route = "invalid" -> "TRANSPORT_INVALID_SESSION"
    [] route = "notAllowed" -> "INVALID_REQUEST"

SetReg(reg) ==
  /\ transports' = reg.transports
  /\ sessionTimeouts' = reg.sessionTimeouts
  /\ pendingTimers' = reg.pendingTimers
  /\ closeCalls' = reg.closeCalls

TypeOK ==
  /\ now \in 0..MaxTime
  /\ maxConcurrentSessions \in 1..MaxCapacity
  /\ transports \subseteq SessionIds
  /\ DOMAIN sessionTimeouts \subseteq SessionIds
  /\ closeCalls \in [SessionIds -> Nat]
  /\ nextSid \in 1..(MaxSessions + 1)
  /\ phase \in {"running", "draining", "closing", "stopped"}
  /\ registered \subseteq SessionIds
  /\ requestTimeoutMs \in 1..MaxRequestTimeout
  /\ limiterCount \in 0..MaxServed
  /\ served \in 0..MaxServed
  /\ rq.pc \in {"none", "parsing", "connecting", "handling", "deleting",
               "settled"}
  /\ rq.tsid \in SessionIds \cup {NoSid}
  /\ \A t \in rq.timers : t.kind \in {"request", "connect", "operation"}
  /\ \A s \in SseIds : /\ sse[s].ends \in 0..MaxEndCalls
                        /\ sse[s].wrote \in 0..MaxWrites
                        /\ sse[s].received \in 0..MaxMessages
                        /\ sse[s].err \in {"none", "logged", "raised"}
  /\ \A k \in Keys : /\ limiter[k].count \in 0..(RateLimitMax + 1)
                      /\ limiter[k].start \in 0..MaxTime
  /\ DOMAIN tools \subseteq ToolNames
  /\ \A n \in DOMAIN tools : tools[n] \in ToolDefinitions
  /\ lastCall.seq \in 0..MaxCalls
  /\ lastCall.kind \in {"none", "result", "error"}
  /\ lastCall.returned \subseteq Values
  /\ \A n \in ToolNames : invocations[n] \in 0..MaxCalls
  /\ endpoint.port \in Ports
  /\ endpoint.host \in Hosts
  /\ res.headersSent \in BOOLEAN
  /\ res.status \in {"none", "200", "400", "405", "408", "413", "429", "500",
                     "503"}

Init ==
  /\ now = 0
  /\ maxConcurrentSessions \in 1..MaxCapacity
  /\ transports = {}
  /\ sessionTimeouts = << >>
  /\ pendingTimers = {}
  /\ closeCalls = [s \in SessionIds |-> 0]
  /\ req = EmptyBag
  /\ nextSid = 1
  /\ phase = "running"
  /\ stopClosed = {}
  /\ event = NoEvent
  /\ registered = {}
  /\ registeredAt = << >>
  /\ lastRefresh = << >>
  /\ timedOut = {}
  /\ listening = TRUE
  /\ closeError = "none"
  /\ rateLimiter = "active"
  /\ stopResult = NotSettled
  /\ requestTimeoutMs = MaxRequestTimeout
  /\ limiterCount = 0
  /\ served = 0
  /\ rq = NoRequest
  /\ res = NoResponse
  /\ sse = [s \in SseIds |-> NoSse]
  /\ limiter = [k \in Keys |-> NoWindow]
  /\ endpoint = StartListening(Configure(NoPort, NoOption))
  /\ tools = << >>
  /\ lastCall = NoCall
  /\ invocations = [n \in ToolNames |-> 0]


\* ------------------------------------------------------------ requests
\* Segments of the event loop run one at a time, each after the client has
\* read what the one before wrote; once stop() has settled, the entry point
\* exits the process.
Running == event = NoEvent /\ phase # "stopped"

\* History kept for open sessions only.
OpenOnly(f, ts) == [s \in DOMAIN f \cap ts |-> f[s]]

Arrived(verb, sid, init, route) ==
  event' = [kind |-> "arrive", verb |-> verb, sid |-> sid, init |-> init,
            out |-> route]

\* The request q is answered with resp and leaves the server.
Responded(q, resp) ==
  /\ event' = [kind |-> "respond",
               verb |-> IF q.pc = "deleting" THEN "DELETE" ELSE "none",
               sid |-> q.tsid,
               init |-> FALSE, out |-> resp]
  /\ req' = req (-) SetToBag({q})

\* A request arrives and handleMCPRequest rejects it before any await:
\* 503 at the session limit, 400 for an invalid session, 405 for other verbs.
ArriveRejected(verb, sid, init) ==
  LET route == HandleMCPRoute(transports, maxConcurrentSessions, verb, sid, init)
  IN /\ Running
     /\ route \in {"overloaded", "invalid", "notAllowed"}
     /\ Arrived(verb, sid, init, route)
     /\ UNCHANGED <<now, maxConcurrentSessions, transports, sessionTimeouts,
                    pendingTimers, closeCalls, req, nextSid, phase, stopClosed,
                    registered, registeredAt, lastRefresh, timedOut>>
     /\ UNCHANGED <<stopVars, pipeVars, sseVars, limiterVars, startVars, toolVars>>

\* POST or GET for a known session: refreshSessionTimeout, then
\* transport.handleRequest is awaited.
ArriveReuse(verb, sid, init) ==
  /\ Running
  /\ BagCardinality(req) < MaxRequests
  /\ HandleMCPRoute(transports, maxConcurrentSessions, verb, sid, init) = "reuse"
  /\ SetReg(RefreshSessionTimeout(Reg, sid, now))
  /\ lastRefresh' = MapSet(lastRefresh, sid, now)
  /\ UNCHANGED registeredAt
  /\ Accept([pc |-> "handling", tsid |-> sid])
  /\ Arrived(verb, sid, init, "reuse")
  /\ UNCHANGED <<now, maxConcurrentSessions, nextSid, phase, stopClosed,
                 registered, timedOut>>
  /\ UNCHANGED <<stopVars, pipeVars, sseVars, limiterVars, startVars, toolVars>>

\* POST without a session id and with an initialize body: createNewSession
\* builds the transport and awaits server.connect(transport).
ArriveCreate(verb, sid, init) ==
  /\ Running
  /\ BagCardinality(req) < MaxRequests
  /\ nextSid <= MaxSessions
  /\ HandleMCPRoute(transports, maxConcurrentSessions, verb, sid, init) = "create"
  /\ Accept([pc |-> "connecting", tsid |-> nextSid])
  /\ nextSid' = nextSid + 1
  /\ Arrived(verb, sid, init, "create")
  /\ UNCHANGED <<now, maxConcurrentSessions, transports, sessionTimeouts,
                 pendingTimers, closeCalls, phase, stopClosed,
                 registered, registeredAt, lastRefresh, timedOut>>
  /\ UNCHANGED <<stopVars, pipeVars, sseVars, limiterVars, startVars, toolVars>>

\* DELETE for a known session: transport.handleRequest is awaited.
ArriveTerminate(verb, sid, init) ==
  /\ Running
  /\ BagCardinality(req) < MaxRequests
  /\ HandleMCPRoute(transports, maxConcurrentSessions, verb, sid, init) = "terminate"
  /\ Accept([pc |-> "deleting", tsid |-> sid])
  /\ Arrived(verb, sid, init, "terminate")
  /\ UNCHANGED <<now, maxConcurrentSessions, transports, sessionTimeouts,
                 pendingTimers, closeCalls, nextSid, phase, stopClosed,
                 registered, registeredAt, lastRefresh, timedOut>>
  /\ UNCHANGED <<stopVars, pipeVars, sseVars, limiterVars, startVars, toolVars>>

\* server.connect(transport) resolves: createNewSession returns the transport,
\* handlePostRequest resumes and calls transport.handleRequest.  No await lies
\* between, so it is one segment.  The SDK either initializes the session and
\* calls onsessioninitialized (sdkInit), or refuses the HTTP request (its
\* Accept header) and leaves the transport without a session.
ConnectOk(q, sdkInit) ==
  LET after == IF sdkInit THEN OnSessionInitialized(Reg, q.tsid, now) ELSE Reg
  IN /\ Running
     /\ q.pc = "connecting"
     /\ SetReg(after)
     /\ registered' = IF sdkInit THEN registered \cup {q.tsid} ELSE registered
     /\ lastRefresh' = IF sdkInit THEN MapSet(lastRefresh, q.tsid, now)
                       ELSE lastRefresh
     /\ registeredAt' = IF sdkInit THEN MapSet(registeredAt, q.tsid, now)
                        ELSE registeredAt
     /\ Advance(q, "handling")
     /\ event' = [kind |-> "connect", verb |-> "none", sid |-> q.tsid,
                  init |-> FALSE,
                  out |-> IF sdkInit THEN "initialized" ELSE "refused"]
     /\ UNCHANGED <<now, maxConcurrentSessions, nextSid, phase, stopClosed,
                    timedOut>>
     /\ UNCHANGED <<stopVars, pipeVars, sseVars, limiterVars, startVars, toolVars>>

\* server.connect(transport) rejects or exceeds 5 s: createNewSession throws
\* TRANSPORT_CONNECTION_FAILED, which the route handler answers.
ConnectFail(q) ==
  /\ Running
  /\ q.pc = "connecting"
  /\ Responded(q, "TRANSPORT_CONNECTION_FAILED")
  /\ UNCHANGED <<now, maxConcurrentSessions, transports, sessionTimeouts,
                 pendingTimers, closeCalls, nextSid, phase, stopClosed,
                 registered, registeredAt, lastRefresh, timedOut>>
  /\ UNCHANGED <<stopVars, pipeVars, sseVars, limiterVars, startVars, toolVars>>

\* transport.handleRequest of a POST or GET settles (resolved, or rejected or
\* timed out).
HandleDone(q, resp) ==
  /\ Running
  /\ q.pc = "handling"
  /\ Responded(q, resp)
  /\ UNCHANGED <<now, maxConcurrentSessions, transports, sessionTimeouts,
                 pendingTimers, closeCalls, nextSid, phase, stopClosed,
                 registered, registeredAt, lastRefresh, timedOut>>
  /\ UNCHANGED <<stopVars, pipeVars, sseVars, limiterVars, startVars, toolVars>>

\* handleDeleteRequest: transport.handleRequest settles (the SDK has closed the
\* transport, or the call rejected or timed out); finally cleanupSession.
DeleteDone(q, sdkCloses, fires) ==
  LET sid == q.tsid
      afterSdk == IF sdkCloses THEN TransportClose(Reg, sid, TRUE, StackDepth)
                  ELSE Reg
      after == CleanupSession(afterSdk, sid, fires, StackDepth)
  IN /\ Running
     /\ q.pc = "deleting"
     /\ SetReg(after)
     /\ lastRefresh' = OpenOnly(lastRefresh, after.transports)
     /\ registeredAt' = OpenOnly(registeredAt, after.transports)
     /\ Responded(q, IF sdkCloses THEN "OK" ELSE "ERROR")
     /\ UNCHANGED <<now, maxConcurrentSessions, nextSid, phase, stopClosed,
                    registered, timedOut>>
     /\ UNCHANGED <<stopVars, pipeVars, sseVars, limiterVars, startVars, toolVars>>

\* ------------------------------------------------------------- timers
\* The idle timer armed by setupSessionTimeout expires: cleanupSession.
TimerFire(t, fires) ==
  LET after == CleanupSession([Reg EXCEPT !.pendingTimers = @ \ {t}],
                              t.sid, fires, StackDepth)
  IN /\ Running
     /\ t \in pendingTimers
     /\ t.due <= now
     /\ SetReg(after)
     /\ lastRefresh' = OpenOnly(lastRefresh, after.transports)
     /\ registeredAt' = OpenOnly(registeredAt, after.transports)
     /\ timedOut' = timedOut \cup {t.sid}
     /\ event' = [kind |-> "timer", verb |-> "none", sid |-> t.sid,
                  init |-> FALSE, out |-> "evicted"]
     /\ UNCHANGED <<now, maxConcurrentSessions, req, nextSid, phase,
                    stopClosed, registered>>
     /\ UNCHANGED <<stopVars, pipeVars, sseVars, limiterVars, startVars, toolVars>>

Tick ==
  /\ Running
  /\ now < MaxTime
  /\ \A t \in pendingTimers \cup rq.timers : t.due > now
  /\ now' = now + 1
  /\ event' = NoEvent
  /\ UNCHANGED <<maxConcurrentSessions, transports, sessionTimeouts,
                 pendingTimers, closeCalls, req, nextSid, phase, stopClosed,
                 registered, registeredAt, lastRefresh, timedOut>>
  /\ UNCHANGED <<stopVars, pipeVars, sseVars, limiterVars, startVars, toolVars>>

\* -------------------------------------------------------------- admin
\* DELETE /sessions/:sessionId: 200 after cleanupSession, or 404.
\* An admin endpoint that applies the capacity check of /mcp first.
AdminRouteCapped(ts, max, sid) ==
  IF AtCapacity(ts, max) THEN "overloaded"
  ELSE IF sid \in ts THEN "terminated" ELSE "notFound"

\* DELETE /sessions/:sessionId: if (this.transports[sessionId]) ... else ...
AdminRoute(ts, max, sid) == IF sid \in ts THEN "terminated" ELSE "notFound"

\* The HTTP status the admin endpoint answers with; 500 from its catch block.
AdminStatus(route) ==
  CASE route = "terminated" -> "200"
    [] route = "notFound" -> "404"
    [] OTHER -> "500"

AdminDeleteFound(sid, fires) ==
  LET after == CleanupSession(Reg, sid, fires, StackDepth)
  IN /\ Running
     /\ AdminRoute(transports, maxConcurrentSessions, sid) = "terminated"
     /\ SetReg(after)
     /\ lastRefresh' = OpenOnly(lastRefresh, after.transports)
     /\ registeredAt' = OpenOnly(registeredAt, after.transports)
     /\ Arrived("ADMIN_DELETE", sid, FALSE, "terminated")
     /\ UNCHANGED <<now, maxConcurrentSessions, req, nextSid, phase,
                    stopClosed, registered, timedOut>>
     /\ UNCHANGED <<stopVars, pipeVars, sseVars, limiterVars, startVars, toolVars>>

AdminDeleteNotFound(sid) ==
  /\ Running
  /\ AdminRoute(transports, maxConcurrentSessions, sid) # "terminated"
  /\ Arrived("ADMIN_DELETE", sid, FALSE,
             AdminRoute(transports, maxConcurrentSessions, sid))
  /\ UNCHANGED <<now, maxConcurrentSessions, transports, sessionTimeouts,
                 pendingTimers, closeCalls, req, nextSid, phase, stopClosed,
                 registered, registeredAt, lastRefresh, timedOut>>
  /\ UNCHANGED <<stopVars, pipeVars, sseVars, limiterVars, startVars, toolVars>>

\* --------------------------------------------------------------- stop
CloseOutcomes == {"closed", "silent", "failed"}

RECURSIVE StopCloseAll(_, _, _)
\* stop(): sessionIds.map(...) calls this.transports[sessionId].close() for
\* every session before the first await.  outcome[s] is "closed" (onclose is
\* invoked and the promise resolves), "silent" (it resolves without onclose)
\* or "failed" (it rejects or exceeds 5 s).
StopCloseAll(reg, ids, outcome) ==
  IF ids = {} THEN reg
  ELSE LET s == CHOOSE x \in ids : TRUE
       IN StopCloseAll(TransportClose(reg, s, outcome[s] = "closed", StackDepth),
                       ids \ {s}, outcome)

RECURSIVE StopCleanupAll(_, _)
\* stop(): this.cleanupSession(sessionId) after each close() that resolved.
StopCleanupAll(reg, ids) ==
  IF ids = {} THEN reg
  ELSE LET s == CHOOSE x \in ids : TRUE
       IN StopCleanupAll(CleanupSession(reg, s, FALSE, StackDepth), ids \ {s})

\* stop(): "Clear all session timeouts"
StopClearTimeouts(reg) ==
  [reg EXCEPT !.pendingTimers =
                 @ \ {reg.sessionTimeouts[s] : s \in DOMAIN reg.sessionTimeouts},
              !.sessionTimeouts = << >>]

\* A drain that gives up at the first session whose close() fails: no close()
\* is attempted once a failure is known.
StopCloseAllAbortOnFailure(reg, ids, outcome) ==
  IF \E s \in ids : outcome[s] = "failed" THEN reg
  ELSE StopCloseAll(reg, ids, outcome)

\* stop(): the session-drain phase up to the await of Promise.allSettled.
StopDrainSessions(reg, ids, outcome) == StopCloseAll(reg, ids, outcome)

\* server.close(callback) of Node's net.Server: the error the callback is
\* called with once the listener has closed, "none" when the server was open.
ServerCloseError(open) == IF open THEN "none" ELSE "ERR_SERVER_NOT_RUNNING"

\* stop() is called: server.close(), then close() of every session's
\* transport before the first await.
StopBegin(outcome) ==
  LET after == StopDrainSessions(Reg, transports, outcome)
  IN /\ Running
     /\ phase = "running"
     /\ SetReg(after)
     /\ lastRefresh' = OpenOnly(lastRefresh, after.transports)
     /\ registeredAt' = OpenOnly(registeredAt, after.transports)
     /\ stopClosed' = {s \in transports : outcome[s] # "failed"}
     /\ phase' = "draining"
     /\ listening' = FALSE
     /\ event' = NoEvent
     /\ UNCHANGED <<now, maxConcurrentSessions, req, nextSid, registered,
                    timedOut, closeError, rateLimiter, stopResult>>
     /\ UNCHANGED <<pipeVars, sseVars, limiterVars, startVars, toolVars>>

\* Promise.allSettled settles: cleanupSession for the sessions whose close()
\* resolved; the rate limiter is destroyed; the timers are cleared;
\* server.close(callback) is called and awaited.
StopDrained ==
  LET after == StopClearTimeouts(StopCleanupAll(Reg, stopClosed))
  IN /\ Running
     /\ phase = "draining"
     /\ SetReg(after)
     /\ lastRefresh' = OpenOnly(lastRefresh, after.transports)
     /\ registeredAt' = OpenOnly(registeredAt, after.transports)
     /\ stopClosed' = {}
     /\ phase' = "closing"
     /\ rateLimiter' = IF rateLimiter = "active" THEN "destroyed"
                       ELSE rateLimiter
     /\ closeError' = ServerCloseError(listening)
     /\ listening' = FALSE
     /\ event' = [kind |-> "stop", verb |-> "none", sid |-> NoSid,
                  init |-> FALSE, out |-> "drained"]
     /\ UNCHANGED <<now, maxConcurrentSessions, req, nextSid, registered,
                    timedOut, stopResult>>
     /\ UNCHANGED <<pipeVars, sseVars, limiterVars, startVars, toolVars>>

\* The listener's close callback is called, or the 10 s bound expires first
\* (expired): stop() resolves, or throws SERVER_SHUTDOWN_FAILED.
StopDone(expired) ==
  /\ Running
  /\ phase = "closing"
  /\ phase' = "stopped"
  /\ stopResult' =
       IF expired
       THEN [result |-> "SERVER_SHUTDOWN_FAILED", cause |-> "timeout"]
       ELSE IF closeError # "none"
       THEN [result |-> "SERVER_SHUTDOWN_FAILED", cause |-> closeError]
       ELSE [result |-> "ok", cause |-> "none"]
  /\ event' = NoEvent
  /\ UNCHANGED <<now, maxConcurrentSessions, transports, sessionTimeouts,
                 pendingTimers, closeCalls, req, nextSid, stopClosed,
                 registered, registeredAt, lastRefresh, timedOut,
                 listening, closeError, rateLimiter>>
  /\ UNCHANGED <<pipeVars, sseVars, limiterVars, startVars, toolVars>>

\* ---------------------------------------------------- specification
Headers == {NoSid} \cup SessionIds

\* The client reads what the step just taken wrote to it.
Observe ==
  /\ event # NoEvent
  /\ event' = NoEvent
  /\ UNCHANGED <<now, maxConcurrentSessions, transports, sessionTimeouts,
                 pendingTimers, closeCalls, req, nextSid, phase, stopClosed,
                 registered, registeredAt, lastRefresh, timedOut>>
  /\ UNCHANGED <<stopVars, pipeVars, sseVars, limiterVars, startVars, toolVars>>

Next ==
  \/ Observe
  \/ \E verb \in Verbs, sid \in Headers, init \in BOOLEAN :
       /\ init => verb = "POST"
       /\ ArriveRejected(verb, sid, init)
  \/ \E verb \in Verbs, sid \in Headers, init \in BOOLEAN :
       /\ init => verb = "POST"
       /\ \/ ArriveReuse(verb, sid, init)
          \/ ArriveCreate(verb, sid, init)
          \/ ArriveTerminate(verb, sid, init)
  \/ \E q \in InFlight, sdkInit \in BOOLEAN : ConnectOk(q, sdkInit)
  \/ \E q \in InFlight : ConnectFail(q)
  \/ \E q \in InFlight, resp \in {"OK", "ERROR"} : HandleDone(q, resp)
  \/ \E q \in InFlight, sdkCloses \in BOOLEAN, fires \in BOOLEAN :
       DeleteDone(q, sdkCloses, fires)
  \/ \E t \in pendingTimers, fires \in BOOLEAN : TimerFire(t, fires)
  \/ Tick
  \/ \E sid \in SessionIds, fires \in BOOLEAN : AdminDeleteFound(sid, fires)
  \/ \E sid \in SessionIds : AdminDeleteNotFound(sid)
  \/ \E outcome \in [transports -> CloseOutcomes] : StopBegin(outcome)
  \/ StopDrained
  \/ \E expired \in BOOLEAN : StopDone(expired)

Spec == Init /\ [][Next]_vars

\* ------------------------------------------- one request, all middleware
\* What the actions of this section leave alone.
dispatchOnlyVars == <<maxConcurrentSessions, req, phase, stopClosed, event,
                      timedOut, stopVars, requestTimeoutMs, sseVars, limiterVars, startVars, toolVars>>
registryVars == <<transports, sessionTimeouts, pendingTimers, closeCalls,
                  registered, registeredAt, lastRefresh>>

\* An admit() that rejects the request that reaches the maximum.
AdmitBelowMax(count) == count < RateLimitMax

\* The rate limiter's admit(): the request is counted, and admitted while the
\* count does not exceed the maximum of the window.
Admit(count) == count <= RateLimitMax

\* A response write that replaces a response already sent.
AnswerOverwrites(r, status, code, by) ==
  [headersSent |-> TRUE, status |-> status, code |-> code,
   id |-> IF by = "transport" THEN "request" ELSE "null", by |-> by]

\* A response write that is never made.
AnswerDropped(r, status, code, by) == r

\* res.status(status).json({jsonrpc: "2.0", error, id: null}) by the server's
\* own code.  Once headers were sent the write is skipped (the guards on
\* res.headersSent) or throws into the route's catch, which skips it.
Answer(r, status, code, by) ==
  IF r.headersSent THEN r
  ELSE [headersSent |-> TRUE, status |-> status, code |-> code,
        id |-> IF by = "transport" THEN "request" ELSE "null", by |-> by]

\* The HTTP status each rejected route answers with.
RouteStatus(route) ==
  CASE route = "overloaded" -> "503"
    [] route = "invalid" -> "400"
    [] route = "notAllowed" -> "405"

\* The timer a setTimeout call arms.
Timer(kind, delay) == [kind |-> kind, due |-> now + delay]

\* ErrorUtils.withTimeout(promise, delay, message): rejects when the promise
\* has not settled after delay; modelled by the timer that rejects it.
WithTimeout(kind, delay) == Timer(kind, delay)
Due(kind) == {t \in rq.timers : t.kind = kind /\ t.due <= now}

\* The route handler settles, after the failure named (an ErrorCode, or
\* "none"); the finished response clears the request timer.
Settle(q, failure) ==
  [q EXCEPT !.pc = "settled", !.timers = {}, !.failure = failure]

\* A request enters the chain: the rate limiting middleware (when configured),
\* then the request timeout middleware, which arms its timer; the body is
\* then read by express.json.
Receive(verb, sid, init) ==
  LET counted == IF rateLimiter = "active" THEN limiterCount + 1
                 ELSE limiterCount
      q == [pc |-> "parsing", verb |-> verb, sid |-> sid, init |-> init,
            tsid |-> NoSid, timers |-> {Timer("request", requestTimeoutMs)},
            at |-> now, limited |-> rateLimiter = "active",
            failure |-> "none"]
  IN /\ Running
     /\ rq.pc \in {"none", "settled"}
     /\ served < MaxServed
     /\ served' = served + 1
     /\ limiterCount' = counted
     /\ IF rateLimiter = "active" /\ ~Admit(counted)
        THEN /\ rq' = Settle(q, "RATE_LIMITED")
             /\ res' = Answer(NoResponse, "429", "RATE_LIMITED",
                              "rateLimiter")
        ELSE /\ rq' = q
             /\ res' = NoResponse
     /\ UNCHANGED <<now, nextSid, registryVars, dispatchOnlyVars>>

\* express.json rejects the body; the error middleware answers: 413 when it
\* is too large, 500 otherwise.
BodyRejected(tooLarge) ==
  /\ Running
  /\ rq.pc = "parsing"
  /\ rq.verb = "POST"
  /\ res' = IF tooLarge
            THEN Answer(res, "413", "INVALID_REQUEST", "errorMiddleware")
            ELSE Answer(res, "500", "INTERNAL_ERROR", "errorMiddleware")
  /\ rq' = Settle(rq, IF tooLarge THEN "INVALID_REQUEST"
                      ELSE "INTERNAL_ERROR")
  /\ UNCHANGED <<now, nextSid, limiterCount, served, registryVars,
                 dispatchOnlyVars>>

\* The route handler runs handleMCPRequest, which rejects the request.
DispatchRejected ==
  LET route == HandleMCPRoute(transports, maxConcurrentSessions,
                              rq.verb, rq.sid, rq.init)
  IN /\ Running
     /\ rq.pc = "parsing"
     /\ route \in {"overloaded", "invalid", "notAllowed"}
     /\ res' = Answer(res, RouteStatus(route), RouteError(route), "dispatcher")
     /\ rq' = Settle(rq, RouteError(route))
     /\ UNCHANGED <<now, nextSid, limiterCount, served, registryVars,
                    dispatchOnlyVars>>

\* ... which finds the session: refreshSessionTimeout, then the transport's
\* handleRequest is awaited under withTimeout(requestTimeoutMs).
DispatchReuse ==
  /\ Running
  /\ rq.pc = "parsing"
  /\ HandleMCPRoute(transports, maxConcurrentSessions,
                    rq.verb, rq.sid, rq.init) = "reuse"
  /\ SetReg(RefreshSessionTimeout(Reg, rq.sid, now))
  /\ lastRefresh' = MapSet(lastRefresh, rq.sid, now)
  /\ rq' = [rq EXCEPT !.pc = "handling", !.tsid = rq.sid,
                      !.timers = @ \cup {WithTimeout("operation", requestTimeoutMs)}]
  /\ UNCHANGED <<now, nextSid, limiterCount, served, res, registered,
                 registeredAt, dispatchOnlyVars>>

\* ... which calls createNewSession: server.connect is awaited under
\* withTimeout(5000).
DispatchCreate ==
  /\ Running
  /\ rq.pc = "parsing"
  /\ nextSid <= MaxSessions
  /\ HandleMCPRoute(transports, maxConcurrentSessions,
                    rq.verb, rq.sid, rq.init) = "create"
  /\ rq' = [rq EXCEPT !.pc = "connecting", !.tsid = nextSid,
                      !.timers = @ \cup {WithTimeout("connect", ConnectTimeoutMs)}]
  /\ nextSid' = nextSid + 1
  /\ UNCHANGED <<now, limiterCount, served, res, registryVars,
                 dispatchOnlyVars>>

\* ... which hands a DELETE to the session's transport under
\* withTimeout(requestTimeoutMs).
DispatchTerminate ==
  /\ Running
  /\ rq.pc = "parsing"
  /\ HandleMCPRoute(transports, maxConcurrentSessions,
                    rq.verb, rq.sid, rq.init) = "terminate"
  /\ rq' = [rq EXCEPT !.pc = "deleting", !.tsid = rq.sid,
                      !.timers = @ \cup {WithTimeout("operation", requestTimeoutMs)}]
  /\ UNCHANGED <<now, nextSid, limiterCount, served, res, registryVars,
                 dispatchOnlyVars>>

\* server.connect resolves in time: createNewSession returns, handlePostRequest
\* calls transport.handleRequest under withTimeout(requestTimeoutMs); the SDK
\* initializes the session (sdkInit) or refuses the HTTP request.
Connected(sdkInit) ==
  LET after == IF sdkInit THEN OnSessionInitialized(Reg, rq.tsid, now) ELSE Reg
  IN /\ Running
     /\ rq.pc = "connecting"
     /\ Due("connect") = {}
     /\ SetReg(after)
     /\ registered' = IF sdkInit THEN registered \cup {rq.tsid} ELSE registered
     /\ lastRefresh' = IF sdkInit THEN MapSet(lastRefresh, rq.tsid, now)
                       ELSE lastRefresh
     /\ registeredAt' = IF sdkInit THEN MapSet(registeredAt, rq.tsid, now)
                        ELSE registeredAt
     /\ rq' = [rq EXCEPT !.pc = "handling",
                         !.timers = {t \in @ : t.kind # "connect"}
                                      \cup {WithTimeout("operation",
                                                        requestTimeoutMs)}]
     /\ UNCHANGED <<now, nextSid, limiterCount, served, res,
                    dispatchOnlyVars>>

\* A failed connection that leaves the session registered and its idle timer
\* armed.
ConnectionFailedRegistered ==
  /\ res' = Answer(res, "500", "TRANSPORT_CONNECTION_FAILED", "dispatcher")
  /\ rq' = Settle(rq, "TRANSPORT_CONNECTION_FAILED")
  /\ SetReg(OnSessionInitialized(Reg, rq.tsid, now))
  /\ UNCHANGED <<now, nextSid, limiterCount, served, registered,
                 registeredAt, lastRefresh, dispatchOnlyVars>>

\* createNewSession throws TRANSPORT_CONNECTION_FAILED; the route's catch
\* answers 500 unless a response was sent.
ConnectionFailed ==
  /\ res' = Answer(res, "500", "TRANSPORT_CONNECTION_FAILED", "dispatcher")
  /\ rq' = Settle(rq, "TRANSPORT_CONNECTION_FAILED")
  /\ UNCHANGED <<now, nextSid, limiterCount, served, registryVars,
                 dispatchOnlyVars>>

\* server.connect rejects.
ConnectRejected ==
  /\ Running
  /\ rq.pc = "connecting"
  /\ Due("connect") = {}
  /\ ConnectionFailed

\* server.connect has not settled after 5 s: withTimeout rejects.  Timers of
\* one duration run in the order they were armed, the request timer first.
ConnectTimedOut ==
  /\ Running
  /\ rq.pc = "connecting"
  /\ Due("connect") # {}
  /\ requestTimeoutMs = ConnectTimeoutMs => Due("request") = {}
  /\ ConnectionFailed

\* The SDK transport starts its response (status line and headers) while
\* handleRequest is pending.
OpWritesHead ==
  /\ Running
  /\ rq.pc \in {"handling", "deleting"}
  /\ ~res.headersSent
  /\ res' = Answer(res, "200", "none", "transport")
  /\ UNCHANGED <<now, nextSid, limiterCount, served, rq, registryVars,
                 dispatchOnlyVars>>

\* A handleDeleteRequest that cleans up after a successful termination only.
AfterOperationOnSuccess(sdkCloses, fires) ==
  IF rq.pc = "deleting" /\ sdkCloses
  THEN CleanupSession(TransportClose(Reg, rq.tsid, TRUE, StackDepth),
                      rq.tsid, fires, StackDepth)
  ELSE Reg

\* What the end of handleDeleteRequest does to the registry: the SDK closed
\* the transport if it handled the DELETE (sdkCloses); finally cleanupSession.
AfterOperation(sdkCloses, fires) ==
  IF rq.pc = "deleting"
  THEN CleanupSession(IF sdkCloses
                      THEN TransportClose(Reg, rq.tsid, TRUE, StackDepth)
                      ELSE Reg,
                      rq.tsid, fires, StackDepth)
  ELSE Reg

\* transport.handleRequest resolves in time: the SDK has answered.
OpResolved(fires) ==
  LET after == AfterOperation(TRUE, fires)
  IN /\ Running
     /\ rq.pc \in {"handling", "deleting"}
     /\ Due("operation") = {}
     /\ SetReg(after)
     /\ lastRefresh' = OpenOnly(lastRefresh, after.transports)
     /\ registeredAt' = OpenOnly(registeredAt, after.transports)
     /\ res' = Answer(res, "200", "none", "transport")
     /\ rq' = Settle(rq, "none")
     /\ UNCHANGED <<now, nextSid, limiterCount, served, registered,
                    dispatchOnlyVars>>

\* The operation failed: the error reaches the route's catch, which answers
\* 500 with code unless a response was sent.
OperationFailed(code, fires) ==
  LET after == AfterOperation(FALSE, fires)
  IN /\ SetReg(after)
     /\ lastRefresh' = OpenOnly(lastRefresh, after.transports)
     /\ registeredAt' = OpenOnly(registeredAt, after.transports)
     /\ res' = Answer(res, "500", code, "dispatcher")
     /\ rq' = Settle(rq, code)
     /\ UNCHANGED <<now, nextSid, limiterCount, served, registered,
                    dispatchOnlyVars>>

\* transport.handleRequest rejects.
OpRejected(fires) ==
  /\ Running
  /\ rq.pc \in {"handling", "deleting"}
  /\ Due("operation") = {}
  /\ OperationFailed("INTERNAL_ERROR", fires)

\* transport.handleRequest has not settled after requestTimeoutMs:
\* withTimeout rejects, after the request timer armed before it has run.
OpTimedOut(fires) ==
  /\ Running
  /\ rq.pc \in {"handling", "deleting"}
  /\ Due("operation") # {}
  /\ Due("request") = {}
  /\ OperationFailed("TRANSPORT_TIMEOUT", fires)

\* A request timeout middleware that answers 408 without looking at
\* res.headersSent.
RequestTimeoutUnguarded ==
  /\ Running
  /\ Due("request") # {}
  /\ res' = AnswerOverwrites(res, "408", "TRANSPORT_TIMEOUT",
                             "timeoutMiddleware")
  /\ rq' = [rq EXCEPT !.timers = {t \in @ : t.kind # "request"}]
  /\ UNCHANGED <<now, nextSid, limiterCount, served, registryVars,
                 dispatchOnlyVars>>

\* The timer of the request timeout middleware runs: 408 unless headers were
\* sent.
RequestTimeout ==
  /\ Running
  /\ Due("request") # {}
  /\ res' = Answer(res, "408", "TRANSPORT_TIMEOUT", "timeoutMiddleware")
  /\ rq' = [rq EXCEPT !.timers = {t \in @ : t.kind # "request"}]
  /\ UNCHANGED <<now, nextSid, limiterCount, served, registryVars,
                 dispatchOnlyVars>>

\* A server that has been running: up to maxConcurrentSessions sessions were
\* registered at time 0.
RequestInit ==
  /\ now = 0
  /\ maxConcurrentSessions \in 1..MaxCapacity
  /\ \E n \in 0..MaxSessions :
       /\ n <= maxConcurrentSessions
       /\ transports = 1..n
       /\ sessionTimeouts = [s \in 1..n |->
                               [sid |-> s, due |-> SessionTimeoutMs]]
       /\ pendingTimers = {[sid |-> s, due |-> SessionTimeoutMs] : s \in 1..n}
       /\ registered = 1..n
       /\ registeredAt = [s \in 1..n |-> 0]
       /\ lastRefresh = [s \in 1..n |-> 0]
       /\ nextSid = n + 1
  /\ closeCalls = [s \in SessionIds |-> 0]
  /\ req = EmptyBag
  /\ phase = "running"
  /\ stopClosed = {}
  /\ event = NoEvent
  /\ timedOut = {}
  /\ listening = TRUE
  /\ closeError = "none"
  /\ rateLimiter \in {"none", "active"}
  /\ stopResult = NotSettled
  /\ requestTimeoutMs \in 1..MaxRequestTimeout
  /\ limiterCount = 0
  /\ served = 0
  /\ rq = NoRequest
  /\ res = NoResponse
  /\ sse = [s \in SseIds |-> NoSse]
  /\ limiter = [k \in Keys |-> NoWindow]
  /\ endpoint = StartListening(Configure(NoPort, NoOption))
  /\ tools = << >>
  /\ lastCall = NoCall
  /\ invocations = [n \in ToolNames |-> 0]

RequestNext ==
  \/ Observe
  \/ \E verb \in Verbs, sid \in Headers, init \in BOOLEAN :
       /\ init => verb = "POST"
       /\ Receive(verb, sid, init)
  \/ \E tooLarge \in BOOLEAN : BodyRejected(tooLarge)
  \/ DispatchRejected
  \/ DispatchReuse
  \/ DispatchCreate
  \/ DispatchTerminate
  \/ \E sdkInit \in BOOLEAN : Connected(sdkInit)
  \/ ConnectRejected
  \/ ConnectTimedOut
  \/ OpWritesHead
  \/ \E fires \in BOOLEAN : OpResolved(fires) \/ OpRejected(fires)
                              \/ OpTimedOut(fires)
  \/ RequestTimeout
  \/ \E t \in pendingTimers, fires \in BOOLEAN : TimerFire(t, fires)
  \/ Tick

RequestSpec == RequestInit /\ [][RequestNext]_vars

\* Node's event loop runs every callback that is ready: a step that can be
\* taken is eventually taken.
RequestLive == RequestSpec /\ WF_vars(RequestNext)

\* ------------------------------------------------------- SSE transport
\* What the actions of this section leave alone, event apart.
sseOnlyVars == <<now, maxConcurrentSessions, req, nextSid, phase, stopClosed,
                 timedOut, registryVars, stopVars, pipeVars, limiterVars, startVars, toolVars>>

\* SSEServerTransport.clearHeartbeat on the session object x.
ClearHeartbeat(x) == [x EXCEPT !.heartbeat = FALSE]

\* A closeSession that ends the response whether or not the session is
\* already closed.
CloseSessionUnguarded(x, endThrows) ==
  [x EXCEPT !.isClosed = TRUE, !.heartbeat = FALSE, !.stored = FALSE,
            !.ends = IF @ < MaxEndCalls THEN @ + 1 ELSE @,
            !.err = IF endThrows THEN "logged" ELSE @]

\* A closeSession that deletes the entry only after response.end() returned.
CloseSessionKeepsOnThrow(x, endThrows) ==
  IF x.stored /\ ~x.isClosed
  THEN [x EXCEPT !.isClosed = TRUE, !.heartbeat = FALSE,
                 !.stored = endThrows,
                 !.ends = IF @ < MaxEndCalls THEN @ + 1 ELSE @,
                 !.err = IF endThrows THEN "logged" ELSE @]
  ELSE x

\* SSETransport.closeSession on the session object x that sessions holds
\* under the id (stored), if any: mark closed, clear the interval,
\* response.end() (an exception is caught and logged), delete the entry.
CloseSession(x, endThrows) ==
  IF x.stored /\ ~x.isClosed
  THEN [x EXCEPT !.isClosed = TRUE, !.heartbeat = FALSE, !.stored = FALSE,
                 !.ends = IF @ < MaxEndCalls THEN @ + 1 ELSE @,
                 !.err = IF endThrows THEN "logged" ELSE @]
  ELSE x

\* session.response.write(...) that returns: late when the session had
\* already been closed.
ResponseWrite(x) ==
  [x EXCEPT !.wrote = IF @ < MaxWrites THEN @ + 1 ELSE @,
            !.late = @ \/ x.isClosed]

\* A send() that writes without looking at isClosed.
SendUnchecked(x, writeThrows) ==
  IF writeThrows THEN [x EXCEPT !.err = "logged"] ELSE ResponseWrite(x)

\* SSEServerTransport.send: writes unless the session is closed; an
\* exception of write is caught and logged.
Send(x, writeThrows) ==
  IF x.isClosed THEN x
  ELSE IF writeThrows THEN [x EXCEPT !.err = "logged"]
  ELSE ResponseWrite(x)

\* A heartbeat callback that swallows the exception of write.
HeartbeatIgnoresFailure(x, writeThrows, endThrows) ==
  IF x.isClosed THEN ClearHeartbeat(x)
  ELSE IF writeThrows THEN x
  ELSE ResponseWrite(x)

\* The setInterval callback of SSEServerTransport.start.
Heartbeat(x, writeThrows, endThrows) ==
  IF x.isClosed THEN ClearHeartbeat(x)
  ELSE IF writeThrows THEN CloseSession(ClearHeartbeat(x), endThrows)
  ELSE ResponseWrite(x)

\* A closeSession that closes every session in the store.
CloseAllSessions(store, id, endThrows) ==
  [s \in DOMAIN store |-> CloseSession(store[s], endThrows)]

\* SSETransport.closeSession(id) on the session store.
CloseSessionById(store, id, endThrows) ==
  [store EXCEPT ![id] = CloseSession(@, endThrows)]

\* SSETransport.handleConnection: the session is stored, server.connect
\* starts the transport (interval armed, close handler registered, the
\* connected event written).
SseConnect(s) ==
  /\ Running
  /\ sse[s] = NoSse
  /\ \A o \in SseIds : o < s => sse[o] # NoSse
  /\ sse' = [sse EXCEPT ![s] = [NoSse EXCEPT !.stored = TRUE,
                                            !.started = TRUE,
                                            !.heartbeat = TRUE]]
  /\ UNCHANGED <<event, sseOnlyVars>>

\* The heartbeat interval of s fires.
SseHeartbeat(s, writeThrows, endThrows) ==
  /\ Running
  /\ sse[s].heartbeat
  /\ sse' = [sse EXCEPT ![s] = Heartbeat(@, writeThrows, endThrows)]
  /\ event' = IF writeThrows /\ ~sse[s].isClosed
              THEN [kind |-> "sse", verb |-> "none", sid |-> s,
                    init |-> FALSE, out |-> "heartbeatFailed"]
              ELSE event
  /\ UNCHANGED sseOnlyVars

\* The server sends a message through the transport of s.
SseSend(s, writeThrows) ==
  /\ Running
  /\ sse[s].started
  /\ sse' = [sse EXCEPT ![s] = Send(@, writeThrows)]
  /\ UNCHANGED <<event, sseOnlyVars>>

\* The response of s emits "close" (the client went away, or the ended
\* response was flushed): clearHeartbeat, closeSession.
SseResponseClose(s, endThrows) ==
  /\ Running
  /\ sse[s].started
  /\ ~sse[s].closeEmitted
  /\ sse' = [CloseSessionById([sse EXCEPT ![s] = ClearHeartbeat(@)],
                              s, endThrows)
               EXCEPT ![s].closeEmitted = TRUE]
  /\ UNCHANGED <<event, sseOnlyVars>>

\* SSEServerTransport.close() of s is called: clearHeartbeat, closeSession.
SseTransportClose(s, endThrows) ==
  /\ Running
  /\ sse[s].started
  /\ sse' = CloseSessionById([sse EXCEPT ![s] = ClearHeartbeat(@)],
                             s, endThrows)
  /\ UNCHANGED <<event, sseOnlyVars>>

\* SSETransport.closeSession(s) is called from outside the transport.
SseCloseSession(s, endThrows) ==
  /\ Running
  /\ sse' = CloseSessionById(sse, s, endThrows)
  /\ UNCHANGED <<event, sseOnlyVars>>

\* transport.onmessage(message), when the server holds a transport with a
\* handler (server.connect set both in handleConnection).
Deliver(x) == IF x.started THEN [x EXCEPT !.received = @ + 1] ELSE x

\* A handleMessage that looks the session up without looking at the store
\* entry or isClosed.
HandleMessageUnchecked(x, throws) ==
  [session |-> Deliver(x), status |-> IF throws THEN "500" ELSE "200"]

\* SSETransport.handleMessage on the session object x that sessions holds
\* under the id (stored), if any: 404 when there is none or it is closed;
\* else onmessage is called and 200 answered, or 500 when the call throws.
HandleMessage(x, throws) ==
  IF ~x.stored \/ x.isClosed
  THEN [session |-> x, status |-> "404"]
  ELSE [session |-> Deliver(x), status |-> IF throws THEN "500" ELSE "200"]

\* error.code of the body handleMessage answers with; 0 when it has none.
MessageErrorCode(status) ==
  CASE status = "404" -> SessionNotFoundCode
    [] status = "500" -> InternalErrorCode
    [] OTHER -> 0

\* A message is posted for the SSE session id s.
SseHandleMessage(s, throws) ==
  LET handled == HandleMessage(sse[s], throws)
  IN /\ Running
     /\ sse[s].received < MaxMessages
     /\ sse' = [sse EXCEPT ![s] = handled.session]
     /\ event' = [kind |-> "sse", verb |-> "message", sid |-> s,
                  init |-> FALSE, out |-> handled.status]
     /\ UNCHANGED sseOnlyVars

\* The SSE sessions next to a server whose registry holds sessions.
SseInit ==
  /\ RequestInit
  /\ rateLimiter = "none"
  /\ requestTimeoutMs = MaxRequestTimeout

SseNext ==
  \/ Observe
  \/ \E s \in SseIds : SseConnect(s)
  \/ \E s \in SseIds, writeThrows \in BOOLEAN, endThrows \in BOOLEAN :
       SseHeartbeat(s, writeThrows, endThrows)
  \/ \E s \in SseIds, writeThrows \in BOOLEAN : SseSend(s, writeThrows)
  \/ \E s \in SseIds, endThrows \in BOOLEAN : SseResponseClose(s, endThrows)
  \/ \E s \in SseIds, endThrows \in BOOLEAN : SseTransportClose(s, endThrows)
  \/ \E s \in SseIds, endThrows \in BOOLEAN : SseCloseSession(s, endThrows)
  \/ \E s \in SseIds, throws \in BOOLEAN : SseHandleMessage(s, throws)
  \/ \E t \in pendingTimers, fires \in BOOLEAN : TimerFire(t, fires)
  \/ \E sid \in SessionIds, fires \in BOOLEAN : AdminDeleteFound(sid, fires)
  \/ Tick

SseSpec == SseInit /\ [][SseNext]_vars

\* -------------------------------------------------------- rate limiter
\* What the actions of this section leave alone, event apart.
limiterOnlyVars == <<now, maxConcurrentSessions, req, nextSid, phase,
                     stopClosed, timedOut, registryVars, stopVars, pipeVars,
                     sseVars, startVars, toolVars>>

\* admit(key) on the window w of the key at time t: a window that has ended
\* (or none) is replaced by one starting at t; the counter is incremented
\* and compared with the maximum.
AdmitWindow(w, t) ==
  IF ~w.tracked \/ t >= w.start + WindowMs
  THEN [w EXCEPT !.tracked = TRUE, !.start = t, !.count = 1]
  ELSE [w EXCEPT !.count = IF @ <= RateLimitMax THEN @ + 1 ELSE @]

\* The history of the key after a request at time t.
Issue(w, t) ==
  IF w.issued = 0
  THEN [w EXCEPT !.firstAt = t, !.issued = 1]
  ELSE IF t < w.firstAt + WindowMs
  THEN [w EXCEPT !.issued = IF @ <= RateLimitMax + 1 THEN @ + 1 ELSE @]
  ELSE [w EXCEPT !.later = IF @ < 2 THEN @ + 1 ELSE @]

\* A request of key k reaches the rate limiting middleware.
LimiterAdmit(k) ==
  LET w == Issue(AdmitWindow(limiter[k], now), now)
  IN /\ Running
     /\ rateLimiter = "active"
     /\ limiter' = [limiter EXCEPT ![k] = w]
     /\ event' = [kind |-> "admit", verb |-> "none", sid |-> k,
                  init |-> FALSE,
                  out |-> IF Admit(w.count) THEN "allowed" ELSE "rejected"]
     /\ UNCHANGED limiterOnlyVars

\* The limiter's background cleanup drops the windows that have ended.
LimiterCleanup ==
  /\ Running
  /\ rateLimiter = "active"
  /\ \E k \in Keys : limiter[k].tracked /\ now >= limiter[k].start + WindowMs
  /\ limiter' = [k \in Keys |->
                   IF limiter[k].tracked /\ now >= limiter[k].start + WindowMs
                   THEN [limiter[k] EXCEPT !.tracked = FALSE, !.start = 0,
                                           !.count = 0]
                   ELSE limiter[k]]
  /\ UNCHANGED <<event, limiterOnlyVars>>

\* A server with a rate limiter and no session.
LimiterInit ==
  /\ RequestInit
  /\ rateLimiter = "active"
  /\ requestTimeoutMs = MaxRequestTimeout
  /\ maxConcurrentSessions = MaxCapacity
  /\ transports = {}

LimiterNext ==
  \/ Observe
  \/ \E k \in Keys : LimiterAdmit(k)
  \/ LimiterCleanup
  \/ Tick

LimiterSpec == LimiterInit /\ [][LimiterNext]_vars

\* ---------------------------------------------------------------- start
\* start(): the listener is created and bound; the promise resolves in the
\* listening callback.
Start ==
  /\ Running
  /\ ~listening
  /\ endpoint.bound = NoAddress
  /\ listening' = TRUE
  /\ endpoint' = StartListening(endpoint)
  /\ UNCHANGED <<now, maxConcurrentSessions, req, nextSid, phase, stopClosed,
                 event, timedOut, registryVars, closeError, rateLimiter,
                 stopResult, pipeVars, sseVars, limiterVars, toolVars>>

\* A server constructed with or without the port and host options, not yet
\* started.
StartInit ==
  /\ now = 0
  /\ maxConcurrentSessions = MaxCapacity
  /\ transports = {}
  /\ sessionTimeouts = << >>
  /\ pendingTimers = {}
  /\ registered = {}
  /\ registeredAt = << >>
  /\ lastRefresh = << >>
  /\ nextSid = 1
  /\ closeCalls = [s \in SessionIds |-> 0]
  /\ req = EmptyBag
  /\ phase = "running"
  /\ stopClosed = {}
  /\ event = NoEvent
  /\ timedOut = {}
  /\ listening = FALSE
  /\ closeError = "none"
  /\ rateLimiter = "active"
  /\ stopResult = NotSettled
  /\ requestTimeoutMs = MaxRequestTimeout
  /\ limiterCount = 0
  /\ served = 0
  /\ rq = NoRequest
  /\ res = NoResponse
  /\ sse = [s \in SseIds |-> NoSse]
  /\ limiter = [k \in Keys |-> NoWindow]
  /\ \E port \in Ports \cup {NoPort}, host \in Hosts \cup {NoOption} :
       endpoint = Configure(port, host)
  /\ tools = << >>
  /\ lastCall = NoCall
  /\ invocations = [n \in ToolNames |-> 0]

\* Once it listens, the server receives requests.
StartNext ==
  \/ Start
  \/ listening /\ LimiterNext

StartSpec == StartInit /\ [][StartNext]_vars

\* -------------------------------------------------------- tool registry
\* What the actions of this section leave alone.
toolOnlyVars == <<now, maxConcurrentSessions, req, nextSid, phase, stopClosed,
                  event, timedOut, registryVars, stopVars, pipeVars, sseVars,
                  limiterVars, startVars>>

\* schema.parse(value) returns; it throws a ZodError otherwise.
Parses(accepts, value) == value \in accepts

\* await tool.handler(validatedArgs): the value it resolves with, or threw.
RunHandler(handler, args) ==
  CASE handler = "echo" -> [threw |-> FALSE, value |-> args]
    [] handler = "other" -> [threw |-> FALSE,
                             value |-> (args + 1) % (MaxValue + 1)]
    [] handler = "throws" -> [threw |-> TRUE, value |-> args]

\* The text of the ToolResult for a result that is neither string nor object:
\* String(result).
FormatResult(value) == ToString(value)

\* How an executeTool call settles: a ToolResult (kind "result") or a thrown
\* Error (kind "error") with the start of its message; returned holds the
\* value the handler resolved with, when it was invoked and resolved.
Settled(kind, message, invoked, returned, text) ==
  [kind |-> kind, message |-> message, invoked |-> invoked,
   returned |-> returned, text |-> text]

\* An executeTool that formats the handler's result without parsing it with
\* the output schema.
ExecuteToolUnvalidatedOutput(store, name, args) ==
  IF name \notin DOMAIN store
  THEN Settled("error", "Unknown tool", FALSE, {}, "none")
  ELSE LET tool == store[name] IN
    IF ~Parses(tool.inputSchema, args)
    THEN Settled("error", "Invalid input", FALSE, {}, "none")
    ELSE LET ran == RunHandler(tool.handler, args) IN
      IF ran.threw
      THEN Settled("error", "handler", TRUE, {}, "none")
      ELSE Settled("result", "none", TRUE, {ran.value},
                   FormatResult(ran.value))

\* ToolRegistry.executeTool(name, args)
ExecuteTool(store, name, args) ==
  IF name \notin DOMAIN store
  THEN Settled("error", "Unknown tool", FALSE, {}, "none")
  ELSE LET tool == store[name] IN
    IF ~Parses(tool.inputSchema, args)
    THEN Settled("error", "Invalid input", FALSE, {}, "none")
    ELSE LET ran == RunHandler(tool.handler, args) IN
      IF ran.threw
      THEN Settled("error", "handler", TRUE, {}, "none")
      ELSE IF tool.outputSchema.present
              /\ ~Parses(tool.outputSchema.accepts, ran.value)
      THEN Settled("error", "Invalid input", TRUE, {ran.value}, "none")
      ELSE Settled("result", "none", TRUE, {ran.value},
                   FormatResult(ran.value))

\* ToolRegistry.register(tool): this.tools.set(tool.name, tool)
Register(name, tool) ==
  /\ tools' = MapSet(tools, name, tool)
  /\ UNCHANGED <<lastCall, invocations, toolOnlyVars>>

\* One executeTool call, from its start to the settling of its promise.
Execute(name, args) ==
  LET settled == ExecuteTool(tools, name, args)
  IN /\ lastCall.seq < MaxCalls
     /\ lastCall' = [seq |-> lastCall.seq + 1, name |-> name, args |-> args,
                     returned |-> settled.returned, kind |-> settled.kind,
                     message |-> settled.message, text |-> settled.text]
     /\ invocations' = IF settled.invoked
                       THEN [invocations EXCEPT ![name] = @ + 1]
                       ELSE invocations
     /\ UNCHANGED <<tools, toolOnlyVars>>

\* A registry as constructed: no tool is registered.
ToolInit == Init /\ maxConcurrentSessions = MaxCapacity

\* The names executeTool is called with: the tool names and one that is
\* never registered.
CallableNames == ToolNames \cup {MaxTools + 1}

\* Names are called whether or not they are registered.
ToolNext ==
  \/ \E name \in ToolNames, tool \in ToolDefinitions : Register(name, tool)
  \/ \E name \in CallableNames, args \in Values : Execute(name, args)

ToolSpec == ToolInit /\ [][ToolNext]_vars

\* ------------------------------------------------------------ properties
\* An initialize request: a POST to /mcp without session id whose body is an
\* initialize message, as the step just taken dispatched it.
InitArrival ==
  event.kind = "arrive" /\ event.verb = "POST" /\ event.sid = NoSid /\ event.init

\* The step just taken dispatched a POST, GET or DELETE whose session id names
\* a session that cleanupSession has removed.
EvictedArrival ==
  /\ event.kind = "arrive"
  /\ event.verb \in {"POST", "GET", "DELETE"}
  /\ event.sid \in registered \ transports

\* C1: the number of sessions registered in transports never exceeds
\* maxConcurrentSessions, whatever the interleaving of initialize requests.
C1_CountWithinMaximum == Cardinality(transports) <= maxConcurrentSessions

\* C2: sequential initialize requests from an empty registry.  An initialize
\* request dispatched while fewer than maxConcurrentSessions sessions are open
\* goes to createNewSession, and when the SDK initializes its transport the
\* registry gains exactly that one session; dispatched alone it finds the count
\* below the maximum exactly as long as fewer than the maximum were created.
\* An initialize request dispatched with the count at the maximum is answered
\* SERVER_OVERLOADED and changes neither the registry nor the requests in
\* flight.
C2_SequentialCreate ==
  /\ [](InitArrival =>
          /\ Cardinality(transports) >= maxConcurrentSessions
               => event.out = "overloaded"
          /\ Cardinality(transports) < maxConcurrentSessions
               => /\ event.out = "create"
                  /\ [pc |-> "connecting", tsid |-> nextSid - 1] \in InFlight)
  /\ [][/\ (InitArrival' /\ event'.out = "overloaded")
             => UNCHANGED <<transports, sessionTimeouts, req, nextSid>>
        /\ \A q \in InFlight :
             ConnectOk(q, TRUE)
               => /\ q.tsid \notin transports
                  /\ transports' = transports \cup {q.tsid}
                  /\ Cardinality(transports') = Cardinality(transports) + 1]_vars

\* C2 witness: M sessions were created one after the other, none was evicted,
\* and the next initialize request has just been answered SERVER_OVERLOADED.
C2_Witness ==
  /\ InitArrival
  /\ event.out = "overloaded"
  /\ Cardinality(transports) = maxConcurrentSessions
  /\ transports = 1..maxConcurrentSessions
  /\ registered = transports
  /\ nextSid = maxConcurrentSessions + 1
  /\ req = EmptyBag

\* C3: createNewSession never returns a transport while the open-session count
\* is at or above maxConcurrentSessions.  (event.sid is the session the SDK
\* registers in the same segment, after createNewSession has returned.)
C3_CreateRefusesAtCapacity ==
  event.kind = "connect"
    => Cardinality(transports \ {event.sid}) < maxConcurrentSessions

\* C4: cleanupSession is idempotent.  In every reachable state, for every
\* session id and whether or not close() reaches onclose, a second call leaves
\* the registry, the timers and every other session as the first call left
\* them; the first call removes the id from transports and sessionTimeouts and
\* touches no other session; for an id never registered it changes nothing.
C4_CleanupIdempotent ==
  \A sid \in SessionIds, fires \in BOOLEAN :
    LET once == CleanupSession(Reg, sid, fires, StackDepth)
        twice == CleanupSession(once, sid, fires, StackDepth)
    IN /\ twice = once
       /\ once.transports = transports \ {sid}
       /\ DOMAIN once.sessionTimeouts = DOMAIN sessionTimeouts \ {sid}
       /\ \A o \in DOMAIN once.sessionTimeouts :
            once.sessionTimeouts[o] = sessionTimeouts[o]
       /\ \A o \in SessionIds \ {sid} : once.closeCalls[o] = closeCalls[o]
       /\ sid \notin registered => once = Reg

\* C4 witness: a DELETE has been answered after the SDK closed the transport
\* (onclose ran cleanupSession) and the handler's finally block ran
\* cleanupSession again, while another session stays open.
C4_Witness ==
  /\ event.kind = "respond"
  /\ event.verb = "DELETE"
  /\ event.out = "OK"
  /\ event.sid \in registered \ transports
  /\ transports # {}

\* C5: a session transport's close() is invoked at most once.
C5_CloseAtMostOnce == \A s \in SessionIds : closeCalls[s] <= 1

\* C6: a registered session is absent from transports and sessionTimeouts once
\* sessionTimeoutMs has elapsed since it was registered or last refreshed.
C6_IdleSessionEvicted ==
  \A s \in transports \cup DOMAIN sessionTimeouts :
    /\ s \in DOMAIN lastRefresh
    /\ now <= lastRefresh[s] + SessionTimeoutMs

\* C7: every pending idle timer is due exactly sessionTimeoutMs after its
\* session's most recent refresh (or registration), so a refresh cancels the
\* superseded timer and at most one timer is pending per session; and the
\* idle timer evicts a session only when exactly that duration has elapsed
\* since the most recent refresh.
C7_RefreshRestartsTimer ==
  /\ [](\A t \in pendingTimers :
          /\ t.sid \in DOMAIN lastRefresh
          /\ t.due = lastRefresh[t.sid] + SessionTimeoutMs
          /\ sessionTimeouts[t.sid] = t)
  /\ [](\A t1, t2 \in pendingTimers : t1.sid = t2.sid => t1 = t2)
  /\ [][(event.kind = "none" /\ event'.kind = "timer")
          => /\ event'.sid \in DOMAIN lastRefresh
             /\ now = lastRefresh[event'.sid] + SessionTimeoutMs
             /\ event'.sid \notin transports']_vars

\* C7 witness: a session refreshed after its registration is still open after
\* its original deadline, and its one timer falls due now, sessionTimeoutMs
\* after the refresh.
C7_Witness ==
  \E s \in transports :
    /\ lastRefresh[s] > registeredAt[s]
    /\ now >= registeredAt[s] + SessionTimeoutMs
    /\ now = lastRefresh[s] + SessionTimeoutMs
    /\ [sid |-> s, due |-> now] \in pendingTimers

\* C8: with maxConcurrentSessions = 1, while the server runs: an initialize
\* request dispatched while a session is open is answered SERVER_OVERLOADED;
\* a session left without refresh does not outlive its idle duration, and the
\* idle timer's callback leaves it in neither transports nor sessionTimeouts;
\* an initialize request dispatched while no session is open goes to
\* createNewSession.
C8_EvictionReleasesCapacity ==
  (maxConcurrentSessions = 1 /\ phase = "running") =>
    /\ InitArrival =>
         /\ transports # {} => event.out = "overloaded"
         /\ transports = {} => event.out = "create"
    /\ \A s \in transports : now <= lastRefresh[s] + SessionTimeoutMs
    /\ event.kind = "timer" =>
         /\ event.sid \notin transports
         /\ event.sid \notin DOMAIN sessionTimeouts

\* C8 witness: with a maximum of 1, the only session was evicted by its idle
\* timer, the count is back to 0, and the next initialize request has just
\* been handed to createNewSession.
C8_Witness ==
  /\ maxConcurrentSessions = 1
  /\ phase = "running"
  /\ timedOut = registered
  /\ Cardinality(registered) = 1
  /\ transports = {}
  /\ InitArrival
  /\ event.out = "create"
  /\ BagCardinality(req) = 1

C10_CreateOnlyOnInitialize ==
  /\ []((event.kind = "arrive" /\ event.out = "create") => InitArrival)
  /\ [][/\ \A s \in transports' \ transports :
             /\ event'.kind = "connect"
             /\ event'.sid = s
             /\ [pc |-> "connecting", tsid |-> s] \in InFlight
        /\ \A s \in SessionIds :
             LET q == [pc |-> "connecting", tsid |-> s]
             IN CopiesIn(q, req') > CopiesIn(q, req) => InitArrival']_vars

\* C10 witness: the SDK has just initialized the session of an initialize
\* request and the registry holds it.
C10_Witness ==
  /\ event.kind = "connect"
  /\ event.out = "initialized"
  /\ event.sid \in transports

\* The step just taken dispatched a request bearing the id of an open session.
OpenArrival == event.kind = "arrive" /\ event.sid \in transports

\* C11: every POST or GET bearing the id of an open session is delegated to
\* that session's transport and refreshes its idle timer, also when the
\* open-session count equals the maximum.
C11_OpenSessionDelegated ==
  (OpenArrival /\ event.verb \in {"POST", "GET"}) =>
    /\ event.out = "reuse"
    /\ lastRefresh[event.sid] = now
    /\ [sid |-> event.sid, due |-> now + SessionTimeoutMs] \in pendingTimers

\* C12: a DELETE bearing the id of an open session terminates it: once the
\* request has been handled (answered on arrival, or answered after the
\* transport handled it) the session is in neither transports nor
\* sessionTimeouts, whatever the open-session count was on arrival.
C12_DeleteTerminates ==
  (event.kind \in {"arrive", "respond"} /\ event.verb = "DELETE"
     /\ event.out # "terminate" /\ event.sid # NoSid) =>
    /\ event.sid \notin transports
    /\ event.sid \notin DOMAIN sessionTimeouts

\* The step just taken dispatched, below the session limit, an /mcp request
\* that neither bears the id of an open session on POST, GET or DELETE nor is
\* a POST without session id and with an initialize body.
OtherArrival ==
  /\ event.kind = "arrive"
  /\ event.verb \in Verbs
  /\ Cardinality(transports) < maxConcurrentSessions
  /\ ~(event.verb \in {"POST", "GET", "DELETE"} /\ event.sid \in transports)
  /\ ~InitArrival

\* C13 as stated: below the session limit every such request, on any verb, is
\* rejected with TRANSPORT_INVALID_SESSION.
C13_OthersInvalidSession ==
  OtherArrival => RouteError(event.out) = "TRANSPORT_INVALID_SESSION"

\* C13 amended: below the session limit every such POST, GET or DELETE is
\* rejected with TRANSPORT_INVALID_SESSION and every such request with another
\* verb with INVALID_REQUEST; the rejection leaves transports, sessionTimeouts
\* and the armed timers unchanged.
C13_OthersRejected ==
  /\ [](OtherArrival =>
          /\ event.out \in {"invalid", "notAllowed"}
          /\ RouteError(event.out) =
               IF event.verb \in {"POST", "GET", "DELETE"}
               THEN "TRANSPORT_INVALID_SESSION" ELSE "INVALID_REQUEST")
  /\ [][OtherArrival' =>
          UNCHANGED <<transports, sessionTimeouts, pendingTimers, req>>]_vars

\* C13 witness: below the limit and with a session open, a POST without
\* session id whose body is not an initialize message has just been rejected
\* with TRANSPORT_INVALID_SESSION.
C13_Witness ==
  /\ OtherArrival
  /\ event.verb = "POST"
  /\ event.sid = NoSid
  /\ event.out = "invalid"
  /\ transports # {}

\* C14: a request answered Overloaded (503, SERVER_OVERLOADED) was answered
\* without the rate limiter having been consulted for it.
C14_CapacityCheckFirst ==
  (rq.pc = "settled" /\ res.code = "SERVER_OVERLOADED") => ~rq.limited

\* A dispatched request whose transport operation (or session creation) is
\* pending.
Pending == rq.pc \in {"connecting", "handling", "deleting"}

\* The timer of the request timeout middleware has run.
DeadlinePassed ==
  /\ now >= rq.at + requestTimeoutMs
  /\ \A t \in rq.timers : t.kind # "request"

TimeoutResponse ==
  /\ res.status = "408"
  /\ res.code = "TRANSPORT_TIMEOUT"
  /\ res.id = "null"

\* C15 as stated: whenever the operation of a dispatched request is still
\* pending once the deadline has passed, the caller has the 408
\* TRANSPORT_TIMEOUT response.
C15_DeadlineAlwaysAnswered == (Pending /\ DeadlinePassed) => TimeoutResponse

\* C15, corrected: a pending request is never past its deadline without a
\* response; once the deadline has passed it has the 408 TRANSPORT_TIMEOUT
\* response unless the transport had already started its own; and whatever
\* the operation does afterwards leaves the 408 response as it is.
C15_DeadlineAnswered ==
  /\ []((Pending /\ ~res.headersSent) => now <= rq.at + requestTimeoutMs)
  /\ []((Pending /\ DeadlinePassed /\ res.by # "transport")
          => TimeoutResponse)
  /\ [][(Pending /\ res.status = "408") => res' = res]_vars

\* The operation completed or failed after the 408 response was sent.
C15_Witness ==
  /\ rq.pc = "settled"
  /\ rq.tsid # NoSid
  /\ TimeoutResponse
  /\ res.by = "timeoutMiddleware"

\* The handling of the request failed inside the /mcp route or the body
\* parser before it.
FailedInHandling ==
  /\ rq.pc = "settled"
  /\ rq.failure \notin {"none", "RATE_LIMITED"}

ErrorStatuses == {"400", "405", "408", "413", "500", "503"}

\* C16: a request whose handling failed has a response, and unless the
\* transport had started it that response is an error status carrying the
\* envelope with an error code and id null.
C16_FailuresAnswered ==
  FailedInHandling =>
    /\ res.headersSent
    /\ res.by # "transport" =>
         /\ res.status \in ErrorStatuses
         /\ res.code # "none"
         /\ res.id = "null"

\* A handler exception answered by the route's catch.
C16_Witness ==
  /\ FailedInHandling
  /\ rq.failure = "INTERNAL_ERROR"
  /\ res.by = "dispatcher"
  /\ res.status = "500"

\* createNewSession failed with TRANSPORT_CONNECTION_FAILED.
ConnectFailure ==
  /\ rq.pc = "settled"
  /\ rq.failure = "TRANSPORT_CONNECTION_FAILED"

\* Nothing of the attempted session is in the registry.
NothingRegistered ==
  /\ rq.tsid \notin transports
  /\ rq.tsid \notin DOMAIN sessionTimeouts
  /\ \A t \in pendingTimers : t.sid # rq.tsid

\* C17 as stated: after a failed connection the request has a 500 response
\* and nothing is registered.
C17_ConnectFailure500 ==
  ConnectFailure => (res.status = "500" /\ NothingRegistered)

\* C17, corrected: after a failed connection nothing is registered, and the
\* request has the 500 TRANSPORT_CONNECTION_FAILED response unless its
\* deadline had passed first and it has the 408 response.
C17_ConnectFailureAnswered ==
  ConnectFailure =>
    /\ NothingRegistered
    /\ \/ /\ res.status = "500"
          /\ res.code = "TRANSPORT_CONNECTION_FAILED"
       \/ /\ TimeoutResponse
          /\ now >= rq.at + requestTimeoutMs

\* The connection timed out and was answered 500.
C17_Witness ==
  /\ ConnectFailure
  /\ res.status = "500"
  /\ res.code = "TRANSPORT_CONNECTION_FAILED"
  /\ rq.tsid # NoSid
  /\ now >= rq.at + ConnectTimeoutMs

\* The step just taken ended stop()'s session-drain phase.
Drained == event.kind = "stop" /\ event.out = "drained"

\* C18: after stop() has run its session-drain phase, transports is empty,
\* also when the close() of a session rejected or exceeded its 5 s.
C18_DrainLeavesNoSession == Drained => transports = {}

\* C19: stop() attempts close() on every open session whatever the outcome of
\* the others; whatever those outcomes, the drain phase ends and stop() goes on
\* to destroy the rate limiter, clear every idle timer and ask the listener to
\* close; and when stop() fails, the cause is the listener, never a session.
C19_DrainTolerant ==
  /\ [][(phase = "running" /\ phase' = "draining") =>
          \A s \in transports :
            closeCalls'[s] > closeCalls[s] \/ closeCalls[s] = MaxCloseCalls]_vars
  /\ []((phase = "draining" /\ event = NoEvent) => ENABLED StopDrained)
  /\ [](Drained =>
          /\ phase = "closing"
          /\ rateLimiter = "destroyed"
          /\ sessionTimeouts = << >>
          /\ pendingTimers = {}
          /\ ~listening)
  /\ [](stopResult.result = "SERVER_SHUTDOWN_FAILED" =>
          stopResult.cause \in {"timeout", "ERR_SERVER_NOT_RUNNING"})

\* C19 witness: the drain phase has ended although the close() of one session
\* failed (it is still registered), another session having been closed and
\* removed by the same drain.
C19_Witness ==
  /\ Drained
  /\ \E s \in transports : closeCalls[s] >= 1
  /\ \E o \in registered \ (transports \cup timedOut) : closeCalls[o] >= 1

\* C20: stop() fails with SERVER_SHUTDOWN_FAILED only if the listener did not
\* close within its 10 s bound.
C20_FailsOnlyOnListenerTimeout ==
  stopResult.result = "SERVER_SHUTDOWN_FAILED" => stopResult.cause = "timeout"

\* stop() has settled, resolved or rejected.
Stopped == phase = "stopped"

\* C21: when stop() has completed, the rate limiter has been destroyed,
\* sessionTimeouts is empty and no idle timer is pending.
C21_StopLeavesNoTimer ==
  Stopped => /\ rateLimiter # "active"
             /\ DOMAIN sessionTimeouts = {}
             /\ pendingTimers = {}

\* stop() has been called.
StopBegun == phase # "running"

\* C22: once stop() has begun, no step adds a session to transports and no
\* step arms an idle timer.
C22_NoAdmissionAfterStop ==
  [][StopBegun => /\ transports' \subseteq transports
                  /\ DOMAIN sessionTimeouts' \subseteq DOMAIN sessionTimeouts
                  /\ pendingTimers' \subseteq pendingTimers]_vars

\* createNewSession has constructed the transport whose session id is s.
Created(s) == s < nextSid

\* The transport of s has been stored in transports, or its close() has been
\* called.
RegisteredOrClosed(s) == s \in registered \/ closeCalls[s] > 0

\* The request that created the transport of s has settled and the transport
\* is neither registered nor closed.
Leaked(s) ==
  /\ Created(s)
  /\ ~RegisteredOrClosed(s)
  /\ rq.tsid = s => rq.pc = "settled"

\* No step, of any request or timer and at any time, registers or closes a
\* transport that has leaked: the behaviours that violate C23 do not depend
\* on how many requests are served or how far the clock runs.
LeakIsPermanent == [][\A s \in SessionIds : Leaked(s) => Leaked(s)']_vars

\* C23: every transport created by createNewSession is eventually registered
\* in transports or closed.
C23_CreatedTransportSettles ==
  \A s \in SessionIds : Created(s) ~> RegisteredOrClosed(s)

\* C24: however close(), the response's close handler and closeSession are
\* called on a session, its response.end() is invoked at most once, exactly
\* once as soon as one of them has run, and no exception leaves a call.
C24_CloseIdempotent ==
  \A s \in SseIds :
    /\ sse[s].ends <= 1
    /\ (sse[s].isClosed \/ sse[s].closeEmitted) => sse[s].ends = 1
    /\ sse[s].err # "raised"

\* The close handler has run on a session that is closed, and end() threw.
C24_Witness ==
  \E s \in SseIds : /\ sse[s].closeEmitted
                    /\ sse[s].isClosed
                    /\ sse[s].ends = 1
                    /\ sse[s].err = "logged"

\* C25: no write reaches the response of a session after closeSession has
\* closed it, and a closed session has no heartbeat interval.
C25_NoUseAfterClose ==
  \A s \in SseIds : /\ ~sse[s].late
                    /\ sse[s].isClosed => ~sse[s].heartbeat

\* A session that was written to and then closed.
C25_Witness ==
  \E s \in SseIds : /\ sse[s].isClosed
                    /\ sse[s].wrote = MaxWrites
                    /\ ~sse[s].late

\* The heartbeat callback has just had its write throw on an open session.
HeartbeatFailed == event.kind = "sse" /\ event.out = "heartbeatFailed"

\* C26: in the step in which the heartbeat write of an open session throws,
\* the interval is cancelled and the session is closed and removed from the
\* session store.
C26_HeartbeatFailureEvicts ==
  HeartbeatFailed => /\ sse[event.sid].isClosed
                     /\ ~sse[event.sid].stored
                     /\ ~sse[event.sid].heartbeat
                     /\ sse[event.sid].ends = 1

C26_Witness == HeartbeatFailed /\ sse[event.sid].started

\* What the registry holds for session o.
RegistryOf(reg, o) ==
  [open |-> o \in reg.transports,
   timeout |-> IF o \in DOMAIN reg.sessionTimeouts
               THEN {reg.sessionTimeouts[o]} ELSE {},
   pending |-> {t \in reg.pendingTimers : t.sid = o},
   closes |-> reg.closeCalls[o]]

\* C27: cleanupSession(id) leaves what the registry holds for every other
\* session as it is, and closeSession(id) leaves every other SSE session as
\* it is.
C27_OthersUnchanged ==
  /\ \A sid \in SessionIds, fires \in BOOLEAN :
       \A o \in SessionIds \ {sid} :
         RegistryOf(CleanupSession(Reg, sid, fires, StackDepth), o)
           = RegistryOf(Reg, o)
  /\ \A id \in SseIds, endThrows \in BOOLEAN :
       \A o \in SseIds \ {id} :
         CloseSessionById(sse, id, endThrows)[o] = sse[o]

\* One session has been evicted and one SSE session closed while another of
\* each is open, with its timer and its heartbeat.
C27_Witness ==
  /\ \E sid \in SessionIds, o \in SessionIds :
       /\ closeCalls[sid] > 0
       /\ sid \notin transports
       /\ o \in transports
       /\ o \in DOMAIN sessionTimeouts
  /\ \E id \in SseIds, o \in SseIds :
       /\ sse[id].isClosed
       /\ sse[o].stored
       /\ sse[o].heartbeat

\* The rate limiter has just decided a request of the key event.sid.
Decided == event.kind = "admit"

\* C28: of the requests a key issues inside the window that begins with its
\* first request, the first RateLimitMax are admitted and every further one
\* is rejected; the first request after that window has elapsed is admitted.
C28_WindowAdmission ==
  Decided =>
    LET w == limiter[event.sid]
    IN /\ (w.later = 0 /\ w.issued <= RateLimitMax) => event.out = "allowed"
       /\ (w.later = 0 /\ w.issued > RateLimitMax) => event.out = "rejected"
       /\ w.later = 1 => event.out = "allowed"

\* The request after the window is admitted, the window having been filled
\* and one request more rejected.
C28_Witness ==
  /\ Decided
  /\ limiter[event.sid].issued = RateLimitMax + 1
  /\ limiter[event.sid].later = 1
  /\ event.out = "allowed"

\* createNewSession has just resolved in this step: the request goes on to
\* the transport's handleRequest.
SessionCreated == rq.pc = "connecting" /\ rq'.pc = "handling"

\* C29: when createNewSession resolves, the transport is stored in
\* transports under its session id and an idle timer is armed for that id.
C29_ResolvedMeansRegistered ==
  [][SessionCreated => /\ rq.tsid \in transports'
                       /\ rq.tsid \in DOMAIN sessionTimeouts'
                       /\ \E t \in pendingTimers' : t.sid = rq.tsid]_vars

\* The address the configuration names.
Configured == [port |-> endpoint.port, host |-> endpoint.host]

\* C30: once start() has bound the listener, the address it listens on is
\* the configured port and the configured host.
C30_ListensOnConfiguredAddress == listening => endpoint.bound = Configured

\* cleanupSession(s) has run: the session was registered and is no longer in
\* transports.
CleanedUp(s) == s \in registered /\ s \notin transports

\* C31: once cleanupSession has run for a session, no idle timer of that
\* session is pending or held in sessionTimeouts, and no step runs an idle
\* timer callback for it.
C31_NoStaleTimer ==
  /\ [](\A s \in SessionIds :
          CleanedUp(s) => /\ s \notin DOMAIN sessionTimeouts
                          /\ \A t \in pendingTimers : t.sid # s)
  /\ [][event'.kind = "timer" => ~CleanedUp(event'.sid)]_vars

\* A session cleaned up by a DELETE or the admin endpoint, not by its timer,
\* with the clock past every timer it ever had.
C31_Witness ==
  \E s \in SessionIds : /\ CleanedUp(s)
                        /\ s \notin timedOut
                        /\ closeCalls[s] > 0
                        /\ now = MaxTime

\* handleDeleteRequest has settled for the session it was called on.
DeleteSettled == rq.pc = "settled" /\ rq.verb = "DELETE" /\ rq.tsid # NoSid

\* C32: when handleDeleteRequest has settled, whether transport.handleRequest
\* resolved, rejected or timed out, its session is in neither transports nor
\* sessionTimeouts and has no idle timer pending.
C32_DeleteAlwaysEvicts ==
  DeleteSettled => /\ rq.tsid \notin transports
                   /\ rq.tsid \notin DOMAIN sessionTimeouts
                   /\ \A t \in pendingTimers : t.sid # rq.tsid

\* A DELETE whose termination timed out, on a session the idle timer had not
\* evicted: the finally block closed its transport.
C32_Witness ==
  /\ DeleteSettled
  /\ rq.failure = "TRANSPORT_TIMEOUT"
  /\ rq.tsid \in registered
  /\ rq.tsid \notin timedOut
  /\ closeCalls[rq.tsid] > 0

\* The session ids whose entry in sessionTimeouts is a timer still pending.
TimedSessions == {s \in DOMAIN sessionTimeouts : sessionTimeouts[s] \in pendingTimers}

\* C33: while stop() has not been called, the sessions holding a pending idle
\* timer in sessionTimeouts are exactly the sessions in transports.
C33_RegistryAndTimersInStep ==
  phase = "running" => /\ TimedSessions = transports
                       /\ DOMAIN sessionTimeouts = transports

\* A session is open with its timer, after another was cleaned up.
C33_Witness ==
  /\ phase = "running"
  /\ transports # {}
  /\ TimedSessions = transports
  /\ \E s \in registered : s \notin transports

\* This step is the arrival of a POST or GET bearing the id of session s.
ArrivalFor(s) ==
  event'.kind = "arrive" /\ event'.verb \in {"POST", "GET"} /\ event'.sid = s

\* The idle timer of a session that stays open is replaced only in a step
\* that is the arrival of a POST or GET for it.
OnlyArrivalsRefresh ==
  [][\A s \in (transports \cap transports') \cap
              (DOMAIN sessionTimeouts \cap DOMAIN sessionTimeouts') :
       sessionTimeouts'[s] # sessionTimeouts[s] => ArrivalFor(s)]_vars

\* C34: the idle timer is refreshed by the arrival of a POST or GET for the
\* session and by nothing else: every such arrival for an open session
\* leaves it open with a timer due sessionTimeoutMs later, so the session is
\* evicted sessionTimeoutMs after its last request arrival.
C34_EvictedAfterLastArrival ==
  /\ OnlyArrivalsRefresh
  /\ [][\A s \in transports :
          ArrivalFor(s) => /\ s \in transports'
                           /\ s \in DOMAIN sessionTimeouts'
                           /\ sessionTimeouts'[s].due = now + SessionTimeoutMs]_vars

\* C35: at most one response is started per request: once a response has
\* been started, no step of the same request (the timeout timer, the handler's
\* result, the handler's catch block) starts another, so the 408 and the 500
\* are never both sent, and the timeout timer sends nothing after a response.
C35_OneResponsePerRequest ==
  [][(res.headersSent /\ served' = served) => res' = res]_vars

\* The timeout middleware answered 408 and the handler failed afterwards: its
\* catch block sent nothing.
C35_Witness ==
  /\ rq.pc = "settled"
  /\ rq.failure \in {"TRANSPORT_TIMEOUT", "INTERNAL_ERROR",
                     "TRANSPORT_CONNECTION_FAILED"}
  /\ res.by = "timeoutMiddleware"
  /\ res.status = "408"

\* C36: DELETE /sessions/:sessionId for an open session removes it from
\* transports and sessionTimeouts and answers 200, whatever the open-session
\* count; for an id that is not registered it answers 404 and leaves
\* transports, sessionTimeouts and the pending timers as they were.
C36_AdminDeleteBypassesCapacity ==
  [][event'.verb = "ADMIN_DELETE" =>
       IF event'.sid \in transports
       THEN /\ AdminStatus(event'.out) = "200"
            /\ event'.sid \notin transports'
            /\ event'.sid \notin DOMAIN sessionTimeouts'
            /\ \A t \in pendingTimers' : t.sid # event'.sid
       ELSE /\ AdminStatus(event'.out) = "404"
            /\ transports' = transports
            /\ sessionTimeouts' = sessionTimeouts
            /\ pendingTimers' = pendingTimers]_vars

\* The admin endpoint has just evicted a session of a full registry.
C36_Witness ==
  /\ event.verb = "ADMIN_DELETE"
  /\ event.out = "terminated"
  /\ event.sid \notin transports
  /\ Cardinality(transports) + 1 = maxConcurrentSessions
  /\ phase = "running"

\* This step is handleMessage for the SSE session id s.
MessageFor(s) ==
  event'.kind = "sse" /\ event'.verb = "message" /\ event'.sid = s

\* The ids SSETransport.sessions holds.
StoredSessions == {s \in SseIds : sse[s].stored}

\* C37: handleMessage for an id that is unknown or closed answers 404 with
\* error code -32000 and no onmessage handler of any session receives the
\* message; for an open session onmessage receives it at most once, nothing
\* else of any session changes, and the session store holds the same ids.
C37_HandleMessage ==
  [][\A s \in SseIds :
       MessageFor(s) =>
         IF ~sse[s].stored \/ sse[s].isClosed
         THEN /\ event'.out = "404"
              /\ MessageErrorCode(event'.out) = SessionNotFoundCode
              /\ sse' = sse
         ELSE /\ event'.out \in {"200", "500"}
              /\ sse'[s].received \in {sse[s].received, sse[s].received + 1}
              /\ sse' = [sse EXCEPT ![s].received = sse'[s].received]]_vars

\* A message was delivered to an open session, which was then closed, and a
\* later message for it has just been answered 404.
C37_Witness ==
  \E s \in SseIds : /\ event.kind = "sse" /\ event.verb = "message"
                    /\ event.sid = s
                    /\ event.out = "404"
                    /\ sse[s].received = 1
                    /\ sse[s].isClosed

\* SSETransport.getSession(id): the ids it returns a session for.
GetSession(id) == IF sse[id].stored THEN {id} ELSE {}

\* SSETransport.getAllSessions(): the ids of the sessions it returns.
GetAllSessions == StoredSessions

\* C38: every session in SSETransport.sessions has isClosed = false, and a
\* closed session is returned by neither getSession nor getAllSessions.
C38_StoreHoldsOpenSessions ==
  /\ \A s \in StoredSessions : ~sse[s].isClosed
  /\ \A s \in SseIds : sse[s].isClosed => /\ GetSession(s) = {}
                                          /\ s \notin GetAllSessions

\* A session was closed by a closeSession whose response.end() threw, while
\* another session is still in the store.
C38_Witness ==
  \E s, o \in SseIds : /\ sse[s].isClosed
                       /\ sse[s].ends > 0
                       /\ sse[s].err = "logged"
                       /\ GetSession(s) = {}
                       /\ GetAllSessions = {o}

\* This step is an executeTool call.
Executed == lastCall'.seq # lastCall.seq

\* The handler result the call obtained fails the output schema of the tool.
FailsOutputSchema(call, tool) ==
  /\ tool.outputSchema.present
  /\ \E v \in call.returned : ~Parses(tool.outputSchema.accepts, v)

\* C39: executeTool for an unregistered name fails with an "Unknown tool"
\* error; for a registered tool whose arguments fail the input schema it
\* fails with an error and no handler is invoked; and a handler result that
\* fails the output schema is never given back as a ToolResult.
C39_ExecuteToolValidates ==
  [][Executed =>
       LET call == lastCall' IN
         IF call.name \notin DOMAIN tools
         THEN /\ call.kind = "error"
              /\ call.message = "Unknown tool"
              /\ invocations' = invocations
         ELSE /\ ~Parses(tools[call.name].inputSchema, call.args)
                   => /\ call.kind = "error"
                      /\ invocations' = invocations
              /\ FailsOutputSchema(call, tools[call.name])
                   => call.kind = "error"]_vars

\* A call whose arguments passed the input schema, whose handler ran once and
\* whose result failed the output schema has failed.
C39_Witness ==
  /\ lastCall.kind = "error"
  /\ lastCall.name \in DOMAIN tools
  /\ Parses(tools[lastCall.name].inputSchema, lastCall.args)
  /\ FailsOutputSchema(lastCall, tools[lastCall.name])
  /\ invocations[lastCall.name] = 1

=============================================================================
